---------------------------- MODULE Spec2Model ----------------------------
(***************************************************************************)
(* Order synchronisation between the Shopify storefront and the Printoteca *)
(* supplier: submission of paid orders (printoteca.js, driven by the       *)
(* orders-paid webhook of index.js) and cancellation.  Every HTTP call to  *)
(* Shopify or Printoteca is one atomic step that may succeed or fail; the  *)
(* read-modify-write helpers of shopify.js are two steps (GET, then PUT).  *)
(***************************************************************************)
EXTENDS Integers, Sequences, FiniteSets, TLC

(* ------------------------------ bounds --------------------------------- *)
MaxItems == 2
PRINTOTECA_MAX_ATTEMPTS == 2

(* ------------------------------ universe ------------------------------- *)
OrderIds == {9001}
Deliveries == {1, 2}
Cancels == {1, 2}
NoSku == ""
Skus == {"A", "B"}
SkuValues == Skus \cup {NoSku}
AllowLists == {{}, {"A"}}
NoValue == "<absent>"
MetaKeys == {"printoteca_order_id", "printoteca_shipping_cost",
             "printoteca_shipping_currency"}
NoData == "<none>"
NoPrice == -1

TagUnknownSku == "POD: unknown SKU"
TagSupplierError == "POD: supplier error"
TagCancelled == "POD: cancelled at supplier"
DesignUrlNeedle == "Design url is not valid"

(* Errors as axios / Error objects: response body (or none) and message.   *)
NoError == [response |-> NoData, message |-> "", status |-> 0]
ErrDesign == [response |-> DesignUrlNeedle,
              message |-> "Request failed with status code 400", status |-> 400]
ErrSupplier == [response |-> "Invalid order",
                message |-> "Request failed with status code 400", status |-> 400]
ErrNoId == [response |-> NoData,
            message |-> "Printoteca response did not contain id", status |-> 0]
ErrShopify == [response |-> "{errors}",
               message |-> "Request failed with status code 500", status |-> 500]
ErrShopify422 == [response |-> "{errors}",
                  message |-> "Request failed with status code 422", status |-> 422]

VARIABLES allowList, lineItems, tags, note, metafields, pOrders, chains, cancels,
          sync, other, now, fulfillments, ful, hooks, metafieldRows, setCall, built

vars == <<allowList, lineItems, tags, note, metafields, pOrders, chains, cancels,
          sync, other, now, fulfillments, ful, hooks, metafieldRows, setCall,
          built>>

(* ------------------------------ helpers -------------------------------- *)
Range(s) == {s[i] : i \in DOMAIN s}

SeqsUpTo(S, n) == UNION {[1..k -> S] : k \in 0..n}

RECURSIVE Dedup(_)
Dedup(s) ==
  IF s = <<>> THEN <<>>
  ELSE LET front == Dedup(SubSeq(s, 1, Len(s) - 1))
           last == s[Len(s)]
       IN IF last \in Range(front) THEN front ELSE Append(front, last)

(* shopify.js parseTags: split on commas, trim, drop empty entries.        *)
parseTags(tagString) == SelectSeq(tagString, LAMBDA t : t # "")

(* shopify.js buildTagString: unique tags, first occurrence kept.          *)
buildTagString(tagList) == Dedup(tagList)

(* printoteca.js extractPrintotecaErrorMessage                             *)
extractPrintotecaErrorMessage(err) ==
  IF err = NoError THEN "Unknown error"
  ELSE IF err.response # NoData THEN err.response
  ELSE IF err.message # "" THEN err.message ELSE "Unknown error"

(* index.js (retrying variant): err.response?.data || err.message, then    *)
(* msgStr.includes('Design url is not valid'); a message of the model is   *)
(* one whole string, and only the design-url body contains the needle.     *)
isDesignUrlError(err) ==
  LET msg == IF err.response # NoData THEN err.response ELSE err.message
  IN msg = DesignUrlNeedle

(* SKU validation without the test for a missing SKU.                      *)
isValidSkuBug(sku) ==
  IF allowList = {} THEN TRUE ELSE sku \in allowList

isValidPrintotecaSku(sku) ==
  IF sku = NoSku THEN FALSE
  ELSE IF Cardinality(allowList) = 0 THEN TRUE
  ELSE sku \in allowList

splitValidInvalidPrintotecaLineItems(items) ==
  [validLineItems |-> SelectSeq(items, LAMBDA li : isValidPrintotecaSku(li.sku)),
   invalidSkus |->
     LET bad == SelectSeq(items, LAMBDA li : ~isValidPrintotecaSku(li.sku))
     IN [i \in DOMAIN bad |-> IF bad[i].sku = NoSku THEN "(no SKU)" ELSE bad[i].sku]]

(* printoteca.js buildPrintotecaOrderPayloadFromShopify: the items of the  *)
(* payload are built from the override when one is given.                  *)
buildPrintotecaOrderPayloadFromShopify(items, validLineItemsOverride) ==
  LET src == validLineItemsOverride
  IN [i \in DOMAIN src |-> [pn |-> src[i].sku, li |-> src[i].id]]

ExternalId(o) == <<"shopify", o>>

(* The payload built from the order carries no correlation id.             *)
NoExternalId == <<>>

(* A correlation id without the prefix.                                    *)
ensureExternalIdBare(payloadExternalId, shopifyOrderId) == <<"order", shopifyOrderId>>

(* A correlation id that names the storefront order after this one.       *)
ensureExternalIdNextOrder(payloadExternalId, shopifyOrderId) ==
  <<"shopify", shopifyOrderId + 1>>

(* A payload sent as it was built.                                         *)
ensureExternalIdDropped(payloadExternalId, shopifyOrderId) == payloadExternalId

(* printoteca.js:311-312                                                   *)
(* payload.external_id = payload.external_id || `shopify:${shopifyOrderId}` *)
ensureExternalId(payloadExternalId, shopifyOrderId) ==
  IF payloadExternalId # NoExternalId THEN payloadExternalId
  ELSE ExternalId(shopifyOrderId)

PRINTOTECA_RETRY_DELAY_MS == 300000

(* A delay that grows with the attempt.                                    *)
retryDelayBackoff(attempt) == (attempt + 1) * PRINTOTECA_RETRY_DELAY_MS

(* printoteca.js:334-338 setTimeout(resolve, PRINTOTECA_RETRY_DELAY_MS)    *)
(* after the failed attempt.                                               *)
retryDelay(attempt) == PRINTOTECA_RETRY_DELAY_MS

(* index.js queueSendOrderToPrintoteca: delayMs.                           *)
sendDelay == PRINTOTECA_RETRY_DELAY_MS

LinkOf(o) == metafields[o]["printoteca_order_id"]

(* ------------------------------ state ---------------------------------- *)
ChainIdle ==
  [pc |-> "idle", order |-> 0, driver |-> "none", outer |-> 0, attempt |-> 0,
   lastError |-> NoError, snap |-> <<>>, pid |-> 0,
   createCalls |-> 0, waits |-> 0, result |-> "none", linkedAtStart |-> FALSE,
   skuTag |-> "none", skuNote |-> "none", errTag |-> "none", errNote |-> "none",
   surfaced |-> FALSE, createsAtSurface |-> 0, linkAtReturn |-> NoValue,
   timers |-> <<>>, createAfter |-> <<>>]

CancelIdle ==
  [pc |-> "idle", order |-> 0, printotecaId |-> NoValue, snap |-> <<>>,
   shippedAt |-> NoData, err |-> NoError,
   fetchCalls |-> 0, deleteCalls |-> 0, tagPuts |-> 0,
   noteTries |-> 0, notePuts |-> 0, raised |-> FALSE,
   deleted |-> "none", okTag |-> "none", okNote |-> "none",
   errTag |-> "none", errNote |-> "none", tagsAtStart |-> <<>>,
   pending |-> FALSE]

(* One run of the reconciliation sweep: its position, its counters, and   *)
(* what it has called so far.                                              *)
(* No fulfillment call made and no webhook received.                       *)
FulIdle ==
  [pc |-> "idle", order |-> 0, trackingNumber |-> NoData, printotecaItems |-> <<>>,
   snap |-> <<>>, lineItemsOverride |-> <<>>, calls |-> <<>>]

(* No setOrderMetafield call made, no payload built.                       *)
SetCallIdle ==
  [pc |-> "idle", orderId |-> 0, namespace |-> "", key |-> "", value |-> "",
   existing |-> 0, rowsBefore |-> <<>>, outcome |-> "none", err |-> NoError,
   postErr |-> NoError, looked |-> FALSE, calls |-> 0]

BuiltIdle == [pc |-> "idle", isArray |-> FALSE, properties |-> <<>>,
              front |-> NoData, back |-> NoData,
              earlier |-> [front |-> NoData, back |-> NoData]]

PureIdle ==
  /\ metafieldRows = <<>>
  /\ setCall = SetCallIdle
  /\ built = BuiltIdle

AsideIdle ==
  /\ fulfillments = [o \in OrderIds |-> <<>>]
  /\ ful = FulIdle
  /\ hooks = <<>>
  /\ PureIdle

SyncIdle ==
  [pc |-> "idle", mode |-> "sweep", order |-> 0, linkSeen |-> NoValue,
   fetchCalls |-> 0, returned |-> <<>>, atStart |-> <<>>, page |-> 0, orders |-> <<>>, idx |-> 0,
   synced |-> 0, errors |-> 0, outcome |-> "none",
   target |-> 0, tag |-> NoData, mfQueue |-> <<>>, snap |-> <<>>,
   listed |-> <<>>, listFailed |-> FALSE, reads |-> 0, tagPut |-> FALSE, mfTried |-> {},
   mfPut |-> {}, tagsBefore |-> <<>>, log |-> <<>>]

MakeLineItems(skus) == [i \in DOMAIN skus |-> [id |-> i, sku |-> skus[i]]]

(* The supplier order an earlier submission of the order left behind.     *)
PriorOrder(o) ==
  [external_id |-> ExternalId(o),
   items |-> buildPrintotecaOrderPayloadFromShopify(lineItems[o],
               splitValidInvalidPrintotecaLineItems(lineItems[o]).validLineItems),
   deleted |-> FALSE, shiped_at |-> NoData, by |-> 0,
   status |-> "received", trackingNumber |-> NoData,
   shippingPrice |-> NoPrice, currency |-> NoData]

InitMetafields(linked) ==
  metafields = [o \in OrderIds |->
    [k \in MetaKeys |->
       IF linked /\ k = "printoteca_order_id" THEN ToString(1) ELSE NoValue]]

(* The order is new, or an earlier submission already linked it (which    *)
(* takes an order with a valid line item).                                 *)
Init ==
  /\ allowList \in AllowLists
  /\ \E skus \in SeqsUpTo(SkuValues, MaxItems) :
       lineItems = [o \in OrderIds |-> MakeLineItems(skus)]
  /\ \E linked \in BOOLEAN :
       /\ linked =>
            splitValidInvalidPrintotecaLineItems(lineItems[9001]).validLineItems # <<>>
       /\ InitMetafields(linked)
       /\ pOrders = IF linked THEN <<PriorOrder(9001)>> ELSE <<>>
  /\ tags = [o \in OrderIds |-> <<>>]
  /\ note = [o \in OrderIds |-> <<>>]
  /\ chains = [c \in Deliveries |-> ChainIdle]
  /\ cancels = [k \in Cancels |-> CancelIdle]
  /\ sync = SyncIdle
  /\ other = SyncIdle
  /\ AsideIdle
  /\ now = 0

SetChain(c, rec) == chains' = [chains EXCEPT ![c] = rec]

StoreUnchanged == UNCHANGED <<tags, note, metafields, pOrders>>
ConfigUnchanged == UNCHANGED <<allowList, lineItems>>
SyncUnchanged ==
  UNCHANGED <<sync, other, now, fulfillments, ful, hooks, metafieldRows, setCall,
              built>>


(* ---------------- webhook-level drivers of a submission ---------------- *)
(* The engine returned (a response, or null for "no valid line items").    *)
DriverReturn(ch, res) == [ch EXCEPT !.pc = "done", !.result = res]

(* The engine threw err.  "queue": queueSendOrderToPrintoteca logs it.     *)
(* "retry": index.js sendOrderToPrintotecaWithRetry(order, attempt)        *)
(* schedules another run when the message names the design url and the     *)
(* webhook-level attempt is below the ceiling.                             *)
DriverCatch(ch, err) ==
  IF ch.driver = "retry" /\ isDesignUrlError(err)
     /\ ch.outer < PRINTOTECA_MAX_ATTEMPTS
  THEN [ch EXCEPT !.pc = "timer", !.outer = @ + 1, !.result = "failed"]
  ELSE [ch EXCEPT !.pc = "done", !.result = "failed"]

(* printoteca.js:344  throw lastError                                      *)
throwLastError(ch) ==
  DriverCatch([ch EXCEPT !.surfaced = TRUE, !.createsAtSurface = ch.createCalls],
              ch.lastError)

(* The loop is exhausted and the error is thrown at once.                  *)
afterLoopNoSurfacing(ch) == throwLastError(ch)

(* printoteca.js:342-343: the loop is exhausted, surface the error.        *)
afterLoop(ch) == [ch EXCEPT !.pc = "err_tag_get"]

(* printoteca.js:327-339: catch of one attempt.                            *)
catchAttempt(ch, err) ==
  LET c1 == [ch EXCEPT !.lastError = err]
  IN IF ch.attempt < PRINTOTECA_MAX_ATTEMPTS
     THEN [c1 EXCEPT !.pc = "retry_wait"]
     ELSE afterLoop(c1)

(* printoteca.js:324-326: the metafield write succeeded, return data.      *)
(* linkAtReturn records the linkage metafield as it is at that moment.     *)
returnCreated(ch, linkNow) ==
  DriverReturn([ch EXCEPT !.linkAtReturn = linkNow], "created")

(* A metafield write that stores nothing.                                  *)
writeMetafieldDropped(mf, key, value) == mf

(* shopify.js:109-133: the metafield of that key now holds String(value).  *)
writeMetafield(mf, key, value) == [mf EXCEPT ![key] = ToString(value)]

(* printoteca.js:348-385 sendOrderToPrintoteca, up to its first HTTP call. *)
sendOrderToPrintoteca(ch) ==
  LET sp == splitValidInvalidPrintotecaLineItems(lineItems[ch.order])
      inv == [ch EXCEPT !.attempt = 1, !.lastError = NoError, !.pid = 0,
                        !.waits = 0, !.snap = <<>>,
                        !.skuTag = "none", !.skuNote = "none",
                        !.errTag = "none", !.errNote = "none",
                        !.surfaced = FALSE, !.result = "none",
                        !.linkedAtStart = (LinkOf(ch.order) # NoValue)]
  IN IF sp.validLineItems = <<>> THEN DriverReturn(inv, "no_items")
     ELSE IF sp.invalidSkus # <<>> THEN [inv EXCEPT !.pc = "sku_tag_get"]
     ELSE [inv EXCEPT !.pc = "post"]

(* After the unknown-SKU tag/note block (or its catch): first attempt.     *)
afterSkuBlock(ch) == [ch EXCEPT !.pc = "post", !.snap = <<>>]

(* shopify.js addOrderTag: the tag list PUT back for a snapshot.           *)
addOrderTagBody(snapshot, newTag) ==
  LET parsed == parseTags(snapshot)
  IN buildTagString(IF newTag \in Range(parsed) THEN parsed
                    ELSE Append(parsed, newTag))

(* shopify.js appendOrderNote: existing note, then the new entry.          *)
appendOrderNoteBody(snapshot, entry) == Append(snapshot, entry)

(* An order update that carries the tags and blanks the note with them.   *)
tagsUpdateWholeOrder(orderId, tagString) ==
  [id |-> orderId, tags |-> tagString, note |-> <<>>]

(* shopify.js addOrderTag / replacePodStatusTag: the order object PUT to  *)
(* /orders/{id}.json carries the id and the tags and nothing else.        *)
tagsUpdate(orderId, tagString) == [id |-> orderId, tags |-> tagString]

(* shopify.js appendOrderNote: the order object PUT carries the id and    *)
(* the note and nothing else.                                             *)
noteUpdate(orderId, newNote) == [id |-> orderId, note |-> newNote]

(* shopify.put(`/orders/${id}.json`, { order }): the store replaces the   *)
(* attributes the order object carries and keeps every other attribute.   *)
ShopifyPutOrder(o, order) ==
  /\ tags' = IF "tags" \in DOMAIN order
             THEN [tags EXCEPT ![o] = order.tags] ELSE tags
  /\ note' = IF "note" \in DOMAIN order
             THEN [note EXCEPT ![o] = order.note] ELSE note
  /\ lineItems' = IF "line_items" \in DOMAIN order
                  THEN [lineItems EXCEPT ![o] = order.line_items] ELSE lineItems

(* --------------------------- submission steps -------------------------- *)
(* index.js (queue variant) orders-paid handler: verified, topic matches.  *)
OrdersPaidQueue(c) ==
  /\ chains[c].pc = "idle"
  /\ \E o \in OrderIds :
       SetChain(c, [ChainIdle EXCEPT !.pc = "timer", !.order = o,
                                     !.driver = "queue", !.outer = 1])
  /\ StoreUnchanged /\ ConfigUnchanged /\ SyncUnchanged /\ UNCHANGED cancels

(* index.js (retrying variant) orders-paid handler.                        *)
OrdersPaidRetry(c) ==
  /\ chains[c].pc = "idle"
  /\ \E o \in OrderIds :
       SetChain(c, [ChainIdle EXCEPT !.pc = "timer", !.order = o,
                                     !.driver = "retry", !.outer = 1])
  /\ StoreUnchanged /\ ConfigUnchanged /\ SyncUnchanged /\ UNCHANGED cancels

(* The send delay (or the webhook-level retry delay) elapses.              *)
TimerFires(c) ==
  /\ chains[c].pc = "timer"
  /\ SetChain(c, sendOrderToPrintoteca(
                    [chains[c] EXCEPT !.timers = Append(@, sendDelay)]))
  /\ StoreUnchanged /\ ConfigUnchanged /\ SyncUnchanged /\ UNCHANGED cancels

SkuTagGet(c) ==
  LET ch == chains[c] IN
  /\ ch.pc = "sku_tag_get"
  /\ \/ SetChain(c, [ch EXCEPT !.pc = "sku_tag_put", !.snap = tags[ch.order]])
     \/ SetChain(c, afterSkuBlock([ch EXCEPT !.skuTag = "failed"]))
  /\ StoreUnchanged /\ ConfigUnchanged /\ SyncUnchanged /\ UNCHANGED cancels

SkuTagPut(c) ==
  LET ch == chains[c] IN
  /\ ch.pc = "sku_tag_put"
  /\ \/ /\ ShopifyPutOrder(ch.order, tagsUpdate(ch.order,
            addOrderTagBody(ch.snap, TagUnknownSku)))
        /\ SetChain(c, [ch EXCEPT !.pc = "sku_note_get", !.skuTag = "ok",
                                  !.snap = <<>>])
     \/ /\ SetChain(c, afterSkuBlock([ch EXCEPT !.skuTag = "failed"]))
        /\ UNCHANGED <<tags, note, lineItems>>
  /\ UNCHANGED <<metafields, pOrders, cancels, allowList>> /\ SyncUnchanged

SkuNoteGet(c) ==
  LET ch == chains[c] IN
  /\ ch.pc = "sku_note_get"
  /\ \/ SetChain(c, [ch EXCEPT !.pc = "sku_note_put", !.snap = note[ch.order]])
     \/ SetChain(c, afterSkuBlock([ch EXCEPT !.skuNote = "failed"]))
  /\ StoreUnchanged /\ ConfigUnchanged /\ SyncUnchanged /\ UNCHANGED cancels

SkuNotePut(c) ==
  LET ch == chains[c]
      sp == splitValidInvalidPrintotecaLineItems(lineItems[ch.order])
  IN
  /\ ch.pc = "sku_note_put"
  /\ \/ /\ ShopifyPutOrder(ch.order, noteUpdate(ch.order,
            appendOrderNoteBody(ch.snap, <<"unknown SKUs", sp.invalidSkus>>)))
        /\ SetChain(c, afterSkuBlock([ch EXCEPT !.skuNote = "ok"]))
     \/ /\ SetChain(c, afterSkuBlock([ch EXCEPT !.skuNote = "failed"]))
        /\ UNCHANGED <<tags, note, lineItems>>
  /\ UNCHANGED <<metafields, pOrders, cancels, allowList>> /\ SyncUnchanged

(* printoteca.js:301-321: build the payload, POST it, look for the id.     *)
PrintotecaPost(c) ==
  LET ch == chains[c]
      sp == splitValidInvalidPrintotecaLineItems(lineItems[ch.order])
      items == buildPrintotecaOrderPayloadFromShopify(lineItems[ch.order],
                                                      sp.validLineItems)
      posted == [ch EXCEPT !.createCalls = @ + 1,
                           !.createAfter = Append(@, Len(ch.timers))]
  IN
  /\ ch.pc = "post"
  /\ \/ /\ pOrders' = Append(pOrders,
              [external_id |-> ensureExternalId(NoExternalId, ch.order),
               items |-> items,
               deleted |-> FALSE, shiped_at |-> NoData, by |-> c,
               status |-> "received", trackingNumber |-> NoData,
               shippingPrice |-> NoPrice, currency |-> NoData])
        /\ SetChain(c, [posted EXCEPT !.pc = "mf_post", !.pid = Len(pOrders) + 1])
     \/ /\ \E err \in {ErrNoId, ErrDesign, ErrSupplier} :
             SetChain(c, catchAttempt(posted, err))
        /\ UNCHANGED pOrders
  /\ UNCHANGED <<tags, note, metafields, cancels>> /\ ConfigUnchanged /\ SyncUnchanged

(* shopify.js:118-125 setOrderMetafield: try create; it succeeds, is       *)
(* refused with 422, or fails otherwise.                                   *)
MetafieldPost(c) ==
  LET ch == chains[c]
      written == writeMetafield(metafields[ch.order], "printoteca_order_id", ch.pid)
  IN
  /\ ch.pc = "mf_post"
  /\ \/ /\ metafields' = [metafields EXCEPT ![ch.order] = written]
        /\ SetChain(c, returnCreated(ch, written["printoteca_order_id"]))
     \/ /\ SetChain(c, [ch EXCEPT !.pc = "mf_get"])
        /\ UNCHANGED metafields
     \/ /\ SetChain(c, catchAttempt(ch, ErrShopify))
        /\ UNCHANGED metafields
  /\ UNCHANGED <<tags, note, pOrders, cancels>> /\ ConfigUnchanged /\ SyncUnchanged

(* shopify.js:123-125: on 422 look the existing metafield up.              *)
MetafieldGet(c) ==
  LET ch == chains[c] IN
  /\ ch.pc = "mf_get"
  /\ \/ SetChain(c, IF LinkOf(ch.order) # NoValue
                    THEN [ch EXCEPT !.pc = "mf_put"]
                    ELSE catchAttempt(ch, ErrShopify422))
     \/ SetChain(c, catchAttempt(ch, ErrShopify))
  /\ StoreUnchanged /\ ConfigUnchanged /\ SyncUnchanged /\ UNCHANGED cancels

(* shopify.js:127-133: update the existing metafield.                      *)
MetafieldPut(c) ==
  LET ch == chains[c]
      written == writeMetafield(metafields[ch.order], "printoteca_order_id", ch.pid)
  IN
  /\ ch.pc = "mf_put"
  /\ \/ /\ metafields' = [metafields EXCEPT ![ch.order] = written]
        /\ SetChain(c, returnCreated(ch, written["printoteca_order_id"]))
     \/ /\ SetChain(c, catchAttempt(ch, ErrShopify))
        /\ UNCHANGED metafields
  /\ UNCHANGED <<tags, note, pOrders, cancels>> /\ ConfigUnchanged /\ SyncUnchanged

(* printoteca.js:334-338: the fixed retry delay elapses, next attempt.     *)
RetryDelayElapses(c) ==
  LET ch == chains[c] IN
  /\ ch.pc = "retry_wait"
  /\ SetChain(c, [ch EXCEPT !.pc = "post", !.attempt = @ + 1, !.waits = @ + 1,
                            !.pid = 0,
                            !.timers = Append(@, retryDelay(ch.attempt))])
  /\ StoreUnchanged /\ ConfigUnchanged /\ SyncUnchanged /\ UNCHANGED cancels

(* printoteca.js:390-413 handlePrintotecaSupplierError, call by call.      *)
ErrTagGet(c) ==
  LET ch == chains[c] IN
  /\ ch.pc = "err_tag_get"
  /\ \/ SetChain(c, [ch EXCEPT !.pc = "err_tag_put", !.snap = tags[ch.order]])
     \/ SetChain(c, [ch EXCEPT !.pc = "err_note_get", !.errTag = "failed"])
  /\ StoreUnchanged /\ ConfigUnchanged /\ SyncUnchanged /\ UNCHANGED cancels

ErrTagPut(c) ==
  LET ch == chains[c] IN
  /\ ch.pc = "err_tag_put"
  /\ \/ /\ ShopifyPutOrder(ch.order, tagsUpdate(ch.order,
            addOrderTagBody(ch.snap, TagSupplierError)))
        /\ SetChain(c, [ch EXCEPT !.pc = "err_note_get", !.errTag = "ok",
                                  !.snap = <<>>])
     \/ /\ SetChain(c, [ch EXCEPT !.pc = "err_note_get", !.errTag = "failed",
                                  !.snap = <<>>])
        /\ UNCHANGED <<tags, note, lineItems>>
  /\ UNCHANGED <<metafields, pOrders, cancels, allowList>> /\ SyncUnchanged

ErrNoteGet(c) ==
  LET ch == chains[c] IN
  /\ ch.pc = "err_note_get"
  /\ \/ SetChain(c, [ch EXCEPT !.pc = "err_note_put", !.snap = note[ch.order]])
     \/ SetChain(c, throwLastError([ch EXCEPT !.errNote = "failed"]))
  /\ StoreUnchanged /\ ConfigUnchanged /\ SyncUnchanged /\ UNCHANGED cancels

ErrNotePut(c) ==
  LET ch == chains[c]
      entry == <<"Printoteca error", extractPrintotecaErrorMessage(ch.lastError)>>
  IN
  /\ ch.pc = "err_note_put"
  /\ \/ /\ ShopifyPutOrder(ch.order, noteUpdate(ch.order,
            appendOrderNoteBody(ch.snap, entry)))
        /\ SetChain(c, throwLastError([ch EXCEPT !.errNote = "ok", !.snap = <<>>]))
     \/ /\ SetChain(c, throwLastError([ch EXCEPT !.errNote = "failed", !.snap = <<>>]))
        /\ UNCHANGED <<tags, note, lineItems>>
  /\ UNCHANGED <<metafields, pOrders, cancels, allowList>> /\ SyncUnchanged

EngineStep(c) ==
  \/ TimerFires(c)
  \/ SkuTagGet(c) \/ SkuTagPut(c) \/ SkuNoteGet(c) \/ SkuNotePut(c)
  \/ PrintotecaPost(c) \/ MetafieldPost(c) \/ MetafieldGet(c) \/ MetafieldPut(c)
  \/ RetryDelayElapses(c)
  \/ ErrTagGet(c) \/ ErrTagPut(c) \/ ErrNoteGet(c) \/ ErrNotePut(c)

(* One paid-webhook delivery for the order, index.js as it queues the     *)
(* send after the delay and leaves every retry to the engine.              *)
Next == OrdersPaidQueue(1) \/ EngineStep(1)

Spec == Init /\ [][Next]_vars

(* The same delivery under the index.js variant that itself retries.       *)
NextRetry == OrdersPaidRetry(1) \/ EngineStep(1)

SpecRetry == Init /\ [][NextRetry]_vars

(* ------------------------------ cancellation --------------------------- *)
SetCancel(k, rec) == cancels' = [cancels EXCEPT ![k] = rec]

(* The supplier order that a linkage metafield value names, 0 when none.   *)
OrderNamedBy(value) ==
  IF \E i \in DOMAIN pOrders : ToString(i) = value
  THEN CHOOSE i \in DOMAIN pOrders : ToString(i) = value
  ELSE 0

(* An await of cancelPrintotecaOrderFromShopifyOrderId outside any try     *)
(* rejects: the function throws, and the catch of the handler's            *)
(* background task (index.js, orders-cancelled) logs the error.            *)
cancelRaise(cn, err) ==
  [cn EXCEPT !.pc = "done", !.raised = TRUE, !.err = err, !.snap = <<>>]

(* The function returns normally.                                          *)
cancelReturn(cn) == [cn EXCEPT !.pc = "done", !.snap = <<>>]

(* A cancel that goes on to the supplier without a linkage.                *)
afterLinkageReadAlwaysFetch(cn, value) ==
  [cn EXCEPT !.printotecaId = value, !.pc = "fetch"]

(* printoteca.js:419-430: the linkage was read; absent, warn in a note.    *)
afterLinkageRead(cn, value) ==
  IF value = NoValue
  THEN [cn EXCEPT !.printotecaId = value, !.pc = "nolink_note_get"]
  ELSE [cn EXCEPT !.printotecaId = value, !.pc = "fetch"]

(* printoteca.js:441-452: warn when the fetched order is already shipped.  *)
afterFetch(cn, shipedAt) ==
  IF shipedAt # NoData
  THEN [cn EXCEPT !.shippedAt = shipedAt, !.pc = "ship_note_get"]
  ELSE [cn EXCEPT !.pc = "delete"]

(* The catch around delete, tag and note without the surfacing call.       *)
cancelCatchSilent(cn, err) == cancelReturn([cn EXCEPT !.err = err])

(* printoteca.js:459-465: the catch around delete, tag and note.           *)
cancelCatch(cn, err) == [cn EXCEPT !.err = err, !.pc = "cerr_tag_get", !.snap = <<>>]

(* A submission of the order waits on its initial delay or on a retry      *)
(* delay: its timer is set and nothing cancels it (index.js                *)
(* queueSendOrderToPrintoteca, printoteca.js:328-332).                     *)
submissionPending(o) ==
  \E c \in Deliveries : chains[c].order = o /\ chains[c].pc \in {"timer", "retry_wait"}

(* index.js orders-cancelled handler: verified, topic matches; the         *)
(* cancellation runs as a background task.                                 *)
OrdersCancelled(k) ==
  /\ cancels[k].pc = "idle"
  /\ \E o \in OrderIds :
       SetCancel(k, [CancelIdle EXCEPT !.pc = "link_get", !.order = o,
                                       !.tagsAtStart = tags[o],
                                       !.pending = submissionPending(o)])
  /\ StoreUnchanged /\ ConfigUnchanged /\ SyncUnchanged /\ UNCHANGED chains

(* printoteca.js:419 getPrintotecaOrderIdMetafield                         *)
CancelLinkGet(k) ==
  LET cn == cancels[k] IN
  /\ cn.pc = "link_get"
  /\ \/ SetCancel(k, afterLinkageRead(cn, LinkOf(cn.order)))
     \/ SetCancel(k, cancelRaise(cn, ErrShopify))
  /\ StoreUnchanged /\ ConfigUnchanged /\ SyncUnchanged /\ UNCHANGED chains

(* printoteca.js:423-427 appendOrderNote, then return.                     *)
CancelNoLinkNoteGet(k) ==
  LET cn == cancels[k] IN
  /\ cn.pc = "nolink_note_get"
  /\ \/ SetCancel(k, [cn EXCEPT !.pc = "nolink_note_put", !.snap = note[cn.order],
                                !.noteTries = @ + 1])
     \/ SetCancel(k, cancelRaise([cn EXCEPT !.noteTries = @ + 1], ErrShopify))
  /\ StoreUnchanged /\ ConfigUnchanged /\ SyncUnchanged /\ UNCHANGED chains

CancelNoLinkNotePut(k) ==
  LET cn == cancels[k] IN
  /\ cn.pc = "nolink_note_put"
  /\ \/ /\ ShopifyPutOrder(cn.order, noteUpdate(cn.order,
            appendOrderNoteBody(cn.snap, <<"no linkage metafield">>)))
        /\ SetCancel(k, cancelReturn([cn EXCEPT !.notePuts = @ + 1]))
     \/ /\ SetCancel(k, cancelRaise(cn, ErrShopify))
        /\ UNCHANGED <<tags, note, lineItems>>
  /\ UNCHANGED <<metafields, pOrders, chains, allowList>> /\ SyncUnchanged

(* printoteca.js:431-438 getPrintotecaOrderById; a failure is logged.      *)
CancelFetch(k) ==
  LET cn == cancels[k]
      i == OrderNamedBy(cn.printotecaId)
      called == [cn EXCEPT !.fetchCalls = @ + 1]
  IN
  /\ cn.pc = "fetch"
  /\ \/ /\ i # 0 /\ ~pOrders[i].deleted
        /\ SetCancel(k, afterFetch(called, pOrders[i].shiped_at))
     \/ SetCancel(k, [called EXCEPT !.pc = "delete"])
  /\ StoreUnchanged /\ ConfigUnchanged /\ SyncUnchanged /\ UNCHANGED chains

(* printoteca.js:446-449 appendOrderNote (already shipped).                *)
CancelShipNoteGet(k) ==
  LET cn == cancels[k] IN
  /\ cn.pc = "ship_note_get"
  /\ \/ SetCancel(k, [cn EXCEPT !.pc = "ship_note_put", !.snap = note[cn.order],
                                !.noteTries = @ + 1])
     \/ SetCancel(k, cancelRaise([cn EXCEPT !.noteTries = @ + 1], ErrShopify))
  /\ StoreUnchanged /\ ConfigUnchanged /\ SyncUnchanged /\ UNCHANGED chains

CancelShipNotePut(k) ==
  LET cn == cancels[k] IN
  /\ cn.pc = "ship_note_put"
  /\ \/ /\ ShopifyPutOrder(cn.order, noteUpdate(cn.order,
            appendOrderNoteBody(cn.snap, <<"already shipped", cn.printotecaId>>)))
        /\ SetCancel(k, [cn EXCEPT !.pc = "delete", !.notePuts = @ + 1, !.snap = <<>>])
     \/ /\ SetCancel(k, cancelRaise(cn, ErrShopify))
        /\ UNCHANGED <<tags, note, lineItems>>
  /\ UNCHANGED <<metafields, pOrders, chains, allowList>> /\ SyncUnchanged

(* printoteca.js:453 deletePrintotecaOrder                                 *)
CancelDelete(k) ==
  LET cn == cancels[k]
      i == OrderNamedBy(cn.printotecaId)
      called == [cn EXCEPT !.deleteCalls = @ + 1]
  IN
  /\ cn.pc = "delete"
  /\ \/ /\ i # 0 /\ ~pOrders[i].deleted
        /\ pOrders' = [pOrders EXCEPT ![i].deleted = TRUE]
        /\ SetCancel(k, [called EXCEPT !.pc = "ctag_get", !.deleted = "ok"])
     \/ /\ SetCancel(k, cancelCatch([called EXCEPT !.deleted = "failed"], ErrSupplier))
        /\ UNCHANGED pOrders
  /\ UNCHANGED <<tags, note, metafields, chains>> /\ ConfigUnchanged /\ SyncUnchanged

(* printoteca.js:454 addOrderTag 'POD: cancelled at supplier'              *)
CancelTagGet(k) ==
  LET cn == cancels[k] IN
  /\ cn.pc = "ctag_get"
  /\ \/ SetCancel(k, [cn EXCEPT !.pc = "ctag_put", !.snap = tags[cn.order]])
     \/ SetCancel(k, cancelCatch([cn EXCEPT !.okTag = "failed"], ErrShopify))
  /\ StoreUnchanged /\ ConfigUnchanged /\ SyncUnchanged /\ UNCHANGED chains

CancelTagPut(k) ==
  LET cn == cancels[k] IN
  /\ cn.pc = "ctag_put"
  /\ \/ /\ ShopifyPutOrder(cn.order, tagsUpdate(cn.order,
            addOrderTagBody(cn.snap, TagCancelled)))
        /\ SetCancel(k, [cn EXCEPT !.pc = "cnote_get", !.tagPuts = @ + 1,
                                   !.okTag = "ok", !.snap = <<>>])
     \/ /\ SetCancel(k, cancelCatch([cn EXCEPT !.okTag = "failed"], ErrShopify))
        /\ UNCHANGED <<tags, note, lineItems>>
  /\ UNCHANGED <<metafields, pOrders, chains, allowList>> /\ SyncUnchanged

(* printoteca.js:455-458 appendOrderNote (cancelled via API).              *)
CancelNoteGet(k) ==
  LET cn == cancels[k] IN
  /\ cn.pc = "cnote_get"
  /\ \/ SetCancel(k, [cn EXCEPT !.pc = "cnote_put", !.snap = note[cn.order],
                                !.noteTries = @ + 1])
     \/ SetCancel(k, cancelCatch([cn EXCEPT !.noteTries = @ + 1,
                                             !.okNote = "failed"], ErrShopify))
  /\ StoreUnchanged /\ ConfigUnchanged /\ SyncUnchanged /\ UNCHANGED chains

CancelNotePut(k) ==
  LET cn == cancels[k] IN
  /\ cn.pc = "cnote_put"
  /\ \/ /\ ShopifyPutOrder(cn.order, noteUpdate(cn.order,
            appendOrderNoteBody(cn.snap, <<"cancelled via API", cn.printotecaId>>)))
        /\ SetCancel(k, cancelReturn([cn EXCEPT !.notePuts = @ + 1, !.okNote = "ok"]))
     \/ /\ SetCancel(k, cancelCatch([cn EXCEPT !.okNote = "failed"], ErrShopify))
        /\ UNCHANGED <<tags, note, lineItems>>
  /\ UNCHANGED <<metafields, pOrders, chains, allowList>> /\ SyncUnchanged

(* printoteca.js:464 handlePrintotecaSupplierError(shopifyOrderId, err):   *)
(* tag and note, each in its own try/catch.                                *)
CancelErrTagGet(k) ==
  LET cn == cancels[k] IN
  /\ cn.pc = "cerr_tag_get"
  /\ \/ SetCancel(k, [cn EXCEPT !.pc = "cerr_tag_put", !.snap = tags[cn.order]])
     \/ SetCancel(k, [cn EXCEPT !.pc = "cerr_note_get", !.errTag = "failed"])
  /\ StoreUnchanged /\ ConfigUnchanged /\ SyncUnchanged /\ UNCHANGED chains

CancelErrTagPut(k) ==
  LET cn == cancels[k] IN
  /\ cn.pc = "cerr_tag_put"
  /\ \/ /\ ShopifyPutOrder(cn.order, tagsUpdate(cn.order,
            addOrderTagBody(cn.snap, TagSupplierError)))
        /\ SetCancel(k, [cn EXCEPT !.pc = "cerr_note_get", !.tagPuts = @ + 1,
                                   !.errTag = "ok", !.snap = <<>>])
     \/ /\ SetCancel(k, [cn EXCEPT !.pc = "cerr_note_get", !.errTag = "failed",
                                   !.snap = <<>>])
        /\ UNCHANGED <<tags, note, lineItems>>
  /\ UNCHANGED <<metafields, pOrders, chains, allowList>> /\ SyncUnchanged

CancelErrNoteGet(k) ==
  LET cn == cancels[k] IN
  /\ cn.pc = "cerr_note_get"
  /\ \/ SetCancel(k, [cn EXCEPT !.pc = "cerr_note_put", !.snap = note[cn.order],
                                !.noteTries = @ + 1])
     \/ SetCancel(k, cancelReturn([cn EXCEPT !.noteTries = @ + 1,
                                              !.errNote = "failed"]))
  /\ StoreUnchanged /\ ConfigUnchanged /\ SyncUnchanged /\ UNCHANGED chains

CancelErrNotePut(k) ==
  LET cn == cancels[k]
      entry == <<"Printoteca error", extractPrintotecaErrorMessage(cn.err)>>
  IN
  /\ cn.pc = "cerr_note_put"
  /\ \/ /\ ShopifyPutOrder(cn.order, noteUpdate(cn.order,
            appendOrderNoteBody(cn.snap, entry)))
        /\ SetCancel(k, cancelReturn([cn EXCEPT !.notePuts = @ + 1, !.errNote = "ok"]))
     \/ /\ SetCancel(k, cancelReturn([cn EXCEPT !.errNote = "failed"]))
        /\ UNCHANGED <<tags, note, lineItems>>
  /\ UNCHANGED <<metafields, pOrders, chains, allowList>> /\ SyncUnchanged

CancelEngineStep(k) ==
  \/ CancelLinkGet(k)
  \/ CancelNoLinkNoteGet(k) \/ CancelNoLinkNotePut(k)
  \/ CancelFetch(k) \/ CancelShipNoteGet(k) \/ CancelShipNotePut(k)
  \/ CancelDelete(k)
  \/ CancelTagGet(k) \/ CancelTagPut(k) \/ CancelNoteGet(k) \/ CancelNotePut(k)
  \/ CancelErrTagGet(k) \/ CancelErrTagPut(k)
  \/ CancelErrNoteGet(k) \/ CancelErrNotePut(k)

CancelStep(k) == OrdersCancelled(k) \/ CancelEngineStep(k)

(* A cancelled-webhook delivery for an order that was never submitted, was *)
(* submitted without its linkage being saved, or is linked to a supplier   *)
(* order that is open, shipped or already deleted.                         *)
ShippedStamps == {NoData, "2025-01-01"}
InitTagSets == {<<>>, <<"vip">>, <<TagSupplierError>>, <<TagCancelled>>}
InitNotes == {<<>>, << <<"customer note", "">> >>}

InitCancel ==
  /\ allowList = {}
  /\ \E skus \in [1..1 -> Skus] :
       lineItems = [o \in OrderIds |-> MakeLineItems(skus)]
  /\ \E linked \in BOOLEAN :
       /\ InitMetafields(linked)
       /\ \/ ~linked /\ pOrders = <<>>
          \/ \E del \in BOOLEAN, stamp \in ShippedStamps :
               pOrders = << [PriorOrder(9001) EXCEPT !.deleted = del,
                                                     !.shiped_at = stamp] >>
  /\ \E t \in InitTagSets : tags = [o \in OrderIds |-> t]
  /\ \E n \in InitNotes : note = [o \in OrderIds |-> n]
  /\ chains = [c \in Deliveries |-> ChainIdle]
  /\ cancels = [k \in Cancels |-> CancelIdle]
  /\ sync = SyncIdle
  /\ other = SyncIdle
  /\ AsideIdle
  /\ now = 0

NextCancel == CancelStep(1)

SpecCancel == InitCancel /\ [][NextCancel]_vars

(* The cancelled webhook is delivered again after the first cancellation   *)
(* has run to its end (index.js orders-cancelled handler, no dedup).       *)
OrdersCancelledAgain ==
  /\ cancels[1].pc = "done"
  /\ OrdersCancelled(2)

NextCancelTwice == CancelStep(1) \/ OrdersCancelledAgain \/ CancelEngineStep(2)

SpecCancelTwice == InitCancel /\ [][NextCancelTwice]_vars

(* ----------------------------- properties ------------------------------ *)
ValidItemsOf(o) == splitValidInvalidPrintotecaLineItems(lineItems[o]).validLineItems
InvalidSkusOf(o) == splitValidInvalidPrintotecaLineItems(lineItems[o]).invalidSkus

(* C1: once the linkage metafield of an order exists, a later submission   *)
(* of that order makes no supplier create call.                            *)
C1_LinkedOrderIsNotCreatedAgain ==
  \A c \in Deliveries :
    chains[c].linkedAtStart => chains[c].createCalls = 0

(* C2: among the supplier orders one paid-webhook delivery has created     *)
(* for its order, at most one is not deleted.                              *)
C2_AtMostOneSupplierOrderPerDelivery ==
  \A c \in Deliveries :
    Cardinality({i \in DOMAIN pOrders :
                   /\ pOrders[i].by = c
                   /\ pOrders[i].external_id = ExternalId(chains[c].order)
                   /\ ~pOrders[i].deleted}) <= 1

(* Every line item of the order has no SKU, or a SKU outside a non-empty   *)
(* allow-list.                                                             *)
AllFilteredOut(o) ==
  \A i \in DOMAIN lineItems[o] :
    \/ lineItems[o][i].sku = NoSku
    \/ allowList # {} /\ lineItems[o][i].sku \notin allowList

(* C3: an order whose line items are all filtered out ends no_items with   *)
(* no supplier create and no linkage written; with an empty allow-list a   *)
(* line item is invalid only when its SKU is missing.                      *)
C3_NoItemsMakesNoCreate ==
  /\ \A c \in Deliveries :
       LET ch == chains[c] IN
       (ch.pc # "idle" /\ AllFilteredOut(ch.order)) =>
          /\ ch.pc \in {"timer", "done"}
          /\ ch.pc = "done" => ch.result = "no_items"
          /\ ch.createCalls = 0
          /\ pOrders = <<>>
          /\ LinkOf(ch.order) = NoValue
  /\ \A o \in OrderIds :
       allowList = {} =>
          Len(ValidItemsOf(o)) =
            Cardinality({i \in DOMAIN lineItems[o] : lineItems[o][i].sku # NoSku})

C3_Witness ==
  /\ chains[1].pc = "done" /\ chains[1].result = "no_items"
  /\ lineItems[9001] # <<>> /\ AllFilteredOut(9001)
  /\ allowList = {}

(* C4: a create call that follows a failed create follows a failure with   *)
(* the design-url message, at an attempt below the ceiling.                *)
C4_RetryOnlyOnDesignUrlError ==
  [][\A c \in Deliveries :
       (/\ chains'[c].createCalls > chains[c].createCalls
        /\ chains[c].lastError \in {ErrDesign, ErrSupplier, ErrNoId})
       => (/\ isDesignUrlError(chains[c].lastError)
           /\ chains[c].createCalls < PRINTOTECA_MAX_ATTEMPTS)]_vars

(* C5: one paid-webhook delivery makes at most PRINTOTECA_MAX_ATTEMPTS     *)
(* supplier create calls.                                                  *)
C5_CreatesBoundedByCeiling ==
  \A c \in Deliveries : chains[c].createCalls <= PRINTOTECA_MAX_ATTEMPTS

(* C6: a submission returns created only with the linkage metafield        *)
(* holding the id the create returned; when the first create failed with   *)
(* the design-url message and the second succeeded, there were exactly two *)
(* create calls and one retry delay.                                       *)
C6_CreatedAfterOneRetry ==
  \A c \in Deliveries :
    LET ch == chains[c] IN
    ch.result = "created" =>
      /\ ch.pc = "done"
      /\ ch.pid \in DOMAIN pOrders
      /\ pOrders[ch.pid].external_id = ExternalId(ch.order)
      /\ ch.linkAtReturn = ToString(ch.pid)
      /\ LinkOf(ch.order) = ToString(ch.pid)
      /\ (ch.outer = 1 /\ ch.attempt = 2 /\ ch.lastError = ErrDesign) =>
            (ch.createCalls = 2 /\ ch.waits = 1)

C6_Witness ==
  /\ chains[1].result = "created" /\ chains[1].outer = 1 /\ chains[1].attempt = 2
  /\ chains[1].lastError = ErrDesign /\ chains[1].createCalls = 2
  /\ ~chains[1].linkedAtStart
  /\ allowList = {}
  /\ lineItems[9001] = MakeLineItems(<<"A", "B">>)
  /\ pOrders[chains[1].pid].items = <<[pn |-> "A", li |-> 1], [pn |-> "B", li |-> 2]>>
  /\ LinkOf(9001) = ToString(chains[1].pid)

HasNote(o, kind, text) ==
  \E i \in DOMAIN note[o] : note[o][i][1] = kind /\ note[o][i][2] = text

C8_InvalidSkuIsTagged ==
  \A c \in Deliveries :
    LET ch == chains[c] IN
    (ch.pc = "done" /\ InvalidSkusOf(ch.order) # <<>>) => ch.skuTag # "none"

(* C9: the cancel function never throws to its caller.                     *)
C9_CancelNeverRaises ==
  \A k \in Cancels : ~cancels[k].raised

(* C10: a finished cancel of an order without linkage metafield has        *)
(* appended exactly one note, called neither fetch nor delete, changed no  *)
(* tag and thrown nothing.                                                 *)
C10_NoLinkageOneNoteNoRaise ==
  \A k \in Cancels :
    LET cn == cancels[k] IN
    (cn.pc = "done" /\ LinkOf(cn.order) = NoValue) =>
      /\ cn.notePuts = 1
      /\ cn.fetchCalls = 0 /\ cn.deleteCalls = 0
      /\ cn.tagPuts = 0
      /\ ~cn.raised

(* --------------------------- status projection ------------------------- *)
TRACKING_WINDOW_DAYS == 14
MsPerDay == 86400000

(* The enumeration of normalized POD tags.                                 *)
PodTags ==
  {"POD: in production", "POD: printing", "POD: shipped", "POD: delivered",
   TagCancelled, TagSupplierError, TagUnknownSku, "POD: refunded", "POD: on hold"}

(* Tags of the model that are no member of the enumeration; the first      *)
(* begins with 'POD:' all the same.                                        *)
TagPriority == "POD: priority"
TagVip == "vip"

(* shopify.js:64  tag.startsWith('POD:'), over the tags of the model.      *)
startsWithPod(t) == t \in PodTags \cup {TagPriority}

(* Supplier statuses of the model: those the mapping names, two of them    *)
(* also capitalised, one it does not name, and an absent status.           *)
Statuses ==
  {"refunded", "internal order query", "stock allocation", "printing",
   "quality control", "received", "in progress", "paid",
   "Printing", "Refunded", "cancelled", NoData}

(* tracking.js:125  (printotecaOrder.status || '').toLowerCase()           *)
toLowerCase(st) ==
  CASE st = NoData -> ""
    [] st = "Printing" -> "printing"
    [] st = "Refunded" -> "refunded"
    [] OTHER -> st

(* Ship timestamps of the model and new Date(shippedAt).getTime() of each, *)
(* in milliseconds after the model's epoch.                                *)
ShipStamp == "2025-01-01"
ShipStampMs == 1000000
getTime(stamp) == CASE stamp = ShipStamp -> ShipStampMs [] OTHER -> 0

(* The window test with a strict comparison.                               *)
windowElapsedStrict(clock, shippedAt) ==
  clock - getTime(shippedAt) > TRACKING_WINDOW_DAYS * MsPerDay

(* tracking.js:136-141: daysSince >= TRACKING_WINDOW_DAYS, with            *)
(* daysSince = (Date.now() - shippedDate.getTime()) / (1000*60*60*24).     *)
windowElapsed(clock, shippedAt) ==
  clock - getTime(shippedAt) >= TRACKING_WINDOW_DAYS * MsPerDay

(* The mapping that looks at the shipping fields before the status.        *)
mapShippingFirst(po, clock) ==
  LET status == toLowerCase(po.status) IN
  IF po.trackingNumber # NoData \/ po.shiped_at # NoData
  THEN IF po.shiped_at # NoData /\ windowElapsed(clock, po.shiped_at)
       THEN "POD: delivered" ELSE "POD: shipped"
  ELSE IF status = "refunded" THEN "POD: refunded"
  ELSE IF status = "internal order query" THEN "POD: on hold"
  ELSE IF status \in {"stock allocation", "printing", "quality control"}
       THEN "POD: printing"
  ELSE IF status \in {"received", "in progress", "paid"}
       THEN "POD: in production"
  ELSE NoData

(* tracking.js:124-158 mapPrintotecaStatusToPodTag; NoData for null.       *)
mapPrintotecaStatusToPodTag(po, clock) ==
  LET status == toLowerCase(po.status)
      hasTracking == po.trackingNumber # NoData
      shippedAt == po.shiped_at
  IN
  IF status = "refunded" THEN "POD: refunded"
  ELSE IF status = "internal order query" THEN "POD: on hold"
  ELSE IF hasTracking \/ shippedAt # NoData
       THEN IF shippedAt # NoData /\ windowElapsed(clock, shippedAt)
            THEN "POD: delivered" ELSE "POD: shipped"
  ELSE IF status \in {"stock allocation", "printing", "quality control"}
       THEN "POD: printing"
  ELSE IF status \in {"received", "in progress", "paid"}
       THEN "POD: in production"
  ELSE NoData

(* A tag replacement that strips nothing.                                  *)
replaceWithoutStrip(snapshot, newPodTag) ==
  buildTagString(Append(parseTags(snapshot), newPodTag))

(* shopify.js:60-74 replacePodStatusTag: the tag list PUT back.            *)
replacePodStatusTagBody(snapshot, newPodTag) ==
  LET kept == SelectSeq(parseTags(snapshot), LAMBDA t : ~startsWithPod(t))
  IN buildTagString(IF newPodTag # NoData THEN Append(kept, newPodTag) ELSE kept)

(* ------------------------------ the sweep ------------------------------ *)
PageLimit == 2
NoOrderId == 0

SetSync(rec) == sync' = rec

(* printoteca.js:126-132 listPrintotecaOrders({created_at_min, limit,      *)
(* page}) of a supplier that honours the page parameter.                   *)
PageOf(page) ==
  LET first == (page - 1) * PageLimit + 1
      last == IF page * PageLimit < Len(pOrders) THEN page * PageLimit
              ELSE Len(pOrders)
  IN IF first > Len(pOrders) THEN <<>>
     ELSE [i \in 1..(last - first + 1) |->
             [po |-> pOrders[first + i - 1], ix |-> first + i - 1]]

(* tracking.js:164-168: externalId && externalId.startsWith('shopify:')    *)
isShopifyExternalId(ext) == Len(ext) > 0 /\ ext[1] = "shopify"

(* tracking.js:170  externalId.replace('shopify:', '')                     *)
shopifyOrderIdOf(ext) == ext[2]

(* tracking.js:232-235 / index.js tracking job: the sweep returns its      *)
(* counts, or throws to the job endpoint, which answers 500.               *)
sweepReturn(sy) == [sy EXCEPT !.pc = "done", !.outcome = "returned", !.snap = <<>>]

(* A sweep that swallows the failure of a list call and returns.           *)
sweepListFailureSwallowed(sy) ==
  [sy EXCEPT !.pc = "done", !.outcome = "returned", !.snap = <<>>]

sweepRaise(sy) == [sy EXCEPT !.pc = "done", !.outcome = "raised", !.snap = <<>>]

(* A sweep that asks for the next page whatever the size of this one.      *)
afterOrderNextPageAlways(sy, ok) ==
  LET entry == [ix |-> sy.orders[sy.idx].ix, ok |-> ok, target |-> sy.target,
                tag |-> sy.tag, reads |-> sy.reads, tagPut |-> sy.tagPut,
                mfTried |-> sy.mfTried, mfPut |-> sy.mfPut,
                tagsBefore |-> sy.tagsBefore]
      counted == [sy EXCEPT !.log = Append(@, entry),
                            !.synced = IF ok THEN @ + 1 ELSE @,
                            !.errors = IF ok THEN @ ELSE @ + 1,
                            !.snap = <<>>, !.mfQueue = <<>>]
  IN IF sy.idx < Len(sy.orders)
     THEN [counted EXCEPT !.idx = @ + 1, !.pc = "apply"]
     ELSE [counted EXCEPT !.page = @ + 1, !.pc = "list"]

(* One order's projection is over: logged, counted, and the loops go on    *)
(* (tracking.js:217-231).                                                  *)
afterOrder(sy, ok) ==
  LET entry == [ix |-> sy.orders[sy.idx].ix, ok |-> ok, target |-> sy.target,
                tag |-> sy.tag, reads |-> sy.reads, tagPut |-> sy.tagPut,
                mfTried |-> sy.mfTried, mfPut |-> sy.mfPut,
                tagsBefore |-> sy.tagsBefore]
      counted == [sy EXCEPT !.log = Append(@, entry),
                            !.synced = IF ok THEN @ + 1 ELSE @,
                            !.errors = IF ok THEN @ ELSE @ + 1,
                            !.snap = <<>>, !.mfQueue = <<>>]
  IN IF sy.idx < Len(sy.orders)
     THEN [counted EXCEPT !.idx = @ + 1, !.pc = "apply"]
     ELSE IF Len(sy.orders) < PageLimit
     THEN sweepReturn(counted)
     ELSE [counted EXCEPT !.page = @ + 1, !.pc = "list"]

(* A catch that counts the failed order among the synced ones.             *)
orderThrewCountedSynced(sy) == afterOrder(sy, TRUE)

(* A sweep that stops at the first order whose projection throws.          *)
orderThrewAbort(sy) == sweepRaise(afterOrder(sy, FALSE))

(* tracking.js:221-228: the catch around one order's projection.           *)
orderThrew(sy) == afterOrder(sy, FALSE)

(* The cost metafields written whatever the summary holds.                 *)
costKeysAlways(po) ==
  <<"printoteca_shipping_cost", "printoteca_shipping_currency">>

(* tracking.js:246-252 / index.js resync endpoint: an await of the resync  *)
(* helper rejects, and the endpoint answers 500.                           *)
resyncRaise(sy) == [sy EXCEPT !.pc = "done", !.outcome = "raised", !.snap = <<>>]

(* tracking.js:248: return false, the endpoint answers 404.                *)
resyncNotLinked(sy) ==
  [sy EXCEPT !.pc = "done", !.outcome = "not_linked", !.snap = <<>>]

(* tracking.js:251: return pOrder.                                         *)
resyncReturn(sy) ==
  [sy EXCEPT !.pc = "done", !.outcome = "returned", !.snap = <<>>,
             !.returned = <<sy.orders[sy.idx].po>>]

(* applyPrintotecaOrderToShopify returns or throws: to the loop of the     *)
(* sweep (tracking.js:218-228), or to the resync helper, which has no      *)
(* catch (tracking.js:250-251).                                            *)
projectionEnds(sy, ok) ==
  IF sy.mode = "resync"
  THEN LET entry == [ix |-> sy.orders[sy.idx].ix, ok |-> ok, target |-> sy.target,
                     tag |-> sy.tag, reads |-> sy.reads, tagPut |-> sy.tagPut,
                     mfTried |-> sy.mfTried, mfPut |-> sy.mfPut,
                     tagsBefore |-> sy.tagsBefore]
           logged == [sy EXCEPT !.log = Append(@, entry), !.mfQueue = <<>>]
       IN IF ok THEN resyncReturn(logged) ELSE resyncRaise(logged)
  ELSE IF ok THEN afterOrder(sy, TRUE) ELSE orderThrew(sy)

(* tracking.js:177-185: the shipping-cost metafields still to write.       *)
costKeys(po) ==
  IF po.shippingPrice = NoPrice THEN <<>>
  ELSE IF po.currency # NoData
       THEN <<"printoteca_shipping_cost", "printoteca_shipping_currency">>
       ELSE <<"printoteca_shipping_cost">>

(* After the tag step of applyPrintotecaOrderToShopify.                    *)
afterTag(sy) ==
  LET keys == costKeys(sy.orders[sy.idx].po)
  IN IF keys = <<>> THEN projectionEnds(sy, TRUE)
     ELSE [sy EXCEPT !.pc = "pmf_post", !.mfQueue = keys, !.snap = <<>>]

(* tracking.js:163-175 applyPrintotecaOrderToShopify up to its first call. *)
applyPrintotecaOrderToShopify(sy) ==
  LET po == sy.orders[sy.idx].po
      fresh == [sy EXCEPT !.target = NoOrderId, !.tag = NoData, !.reads = 0,
                          !.tagPut = FALSE, !.mfTried = {}, !.mfPut = {},
                          !.tagsBefore = <<>>]
  IN IF ~isShopifyExternalId(po.external_id) THEN projectionEnds(fresh, TRUE)
     ELSE LET target == shopifyOrderIdOf(po.external_id)
              tag == mapPrintotecaStatusToPodTag(po, now)
              st == [fresh EXCEPT !.target = target, !.tag = tag,
                        !.tagsBefore = IF target \in OrderIds THEN tags[target]
                                       ELSE <<>>]
          IN IF tag # NoData THEN [st EXCEPT !.pc = "ptag_get"] ELSE afterTag(st)

(* The metafield of the head of the queue is written: on to the next one.  *)
afterMetafield(sy) ==
  LET done == [sy EXCEPT !.mfPut = @ \cup {Head(sy.mfQueue)},
                         !.mfQueue = Tail(@)]
  IN IF done.mfQueue = <<>> THEN projectionEnds(done, TRUE)
     ELSE [done EXCEPT !.pc = "pmf_post"]

(* A metafield write that keeps the value the order already has.           *)
costWrittenOnlyWhenAbsent(sy) ==
  LET po == sy.orders[sy.idx].po
      key == Head(sy.mfQueue)
  IN IF metafields[sy.target][key] # NoValue THEN metafields[sy.target]
     ELSE IF key = "printoteca_shipping_cost"
     THEN [metafields[sy.target] EXCEPT ![key] = ToString(po.shippingPrice)]
     ELSE [metafields[sy.target] EXCEPT ![key] = po.currency]

(* shopify.js:155-157: the metafields of the order with the head of the    *)
(* queue written: String(shippingPrice), or String(currency).              *)
costWritten(sy) ==
  LET po == sy.orders[sy.idx].po
      key == Head(sy.mfQueue)
  IN IF key = "printoteca_shipping_cost"
     THEN writeMetafield(metafields[sy.target], key, po.shippingPrice)
     ELSE [metafields[sy.target] EXCEPT ![key] = po.currency]

OthersUnchanged ==
  UNCHANGED <<allowList, lineItems, note, chains, cancels, other, now,
              fulfillments, ful, hooks, metafieldRows, setCall, built>>

(* index.js tracking job endpoint: pollPrintotecaTrackingOnce().           *)
SweepStart ==
  /\ sync.pc = "idle"
  /\ SetSync([SyncIdle EXCEPT !.pc = "list", !.page = 1,
                              !.atStart = <<tags, metafields>>])
  /\ OthersUnchanged /\ UNCHANGED <<tags, metafields, pOrders>>

(* tracking.js:207-215: the list call of one page, outside any try.        *)
SweepList ==
  LET asked == [sync EXCEPT !.listed = Append(@, sync.page)]
      orders == PageOf(sync.page)
  IN
  /\ sync.pc = "list"
  /\ \/ SetSync(IF orders = <<>> THEN sweepReturn(asked)
                ELSE [asked EXCEPT !.orders = orders, !.idx = 1, !.pc = "apply"])
     \/ SetSync(sweepRaise([asked EXCEPT !.listFailed = TRUE]))
  /\ OthersUnchanged /\ UNCHANGED <<tags, metafields, pOrders>>

(* tracking.js:217-219: the projection of the next order of the page.      *)
SweepApply ==
  /\ sync.pc = "apply"
  /\ SetSync(applyPrintotecaOrderToShopify(sync))
  /\ OthersUnchanged /\ UNCHANGED <<tags, metafields, pOrders>>

(* shopify.js:60 replacePodStatusTag: getOrder.                            *)
ProjTagGet ==
  LET read == [sync EXCEPT !.reads = @ + 1] IN
  /\ sync.pc = "ptag_get"
  /\ \/ /\ sync.target \in OrderIds
        /\ SetSync([read EXCEPT !.pc = "ptag_put", !.snap = tags[sync.target]])
     \/ SetSync(projectionEnds(read, FALSE))
  /\ OthersUnchanged /\ UNCHANGED <<tags, metafields, pOrders>>

(* shopify.js:70-75 replacePodStatusTag: shopify.put.                      *)
ProjTagPut ==
  /\ sync.pc = "ptag_put"
  /\ \/ /\ ShopifyPutOrder(sync.target, tagsUpdate(sync.target,
            replacePodStatusTagBody(sync.snap, sync.tag)))
        /\ SetSync(afterTag([sync EXCEPT !.tagPut = TRUE]))
     \/ /\ SetSync(projectionEnds(sync, FALSE))
        /\ UNCHANGED <<tags, note, lineItems>>
  /\ UNCHANGED <<allowList, chains, cancels, other, now, fulfillments, ful, hooks,
               metafields, pOrders, metafieldRows, setCall, built>>

(* shopify.js:118-125 setOrderMetafield: try create.                       *)
ProjMetafieldPost ==
  LET tried == [sync EXCEPT !.mfTried = @ \cup {Head(sync.mfQueue)}] IN
  /\ sync.pc = "pmf_post"
  /\ \/ /\ sync.target \in OrderIds
        /\ metafields' = [metafields EXCEPT ![sync.target] = costWritten(sync)]
        /\ SetSync(afterMetafield(tried))
     \/ /\ SetSync([tried EXCEPT !.pc = "pmf_get"])
        /\ UNCHANGED metafields
     \/ /\ SetSync(projectionEnds(tried, FALSE))
        /\ UNCHANGED metafields
  /\ OthersUnchanged /\ UNCHANGED <<tags, pOrders>>

(* shopify.js:123-125: on 422 look the existing metafield up.              *)
ProjMetafieldGet ==
  LET read == [sync EXCEPT !.reads = @ + 1] IN
  /\ sync.pc = "pmf_get"
  /\ \/ /\ sync.target \in OrderIds
        /\ SetSync(IF metafields[sync.target][Head(sync.mfQueue)] # NoValue
                   THEN [read EXCEPT !.pc = "pmf_put"]
                   ELSE projectionEnds(read, FALSE))
     \/ SetSync(projectionEnds(read, FALSE))
  /\ OthersUnchanged /\ UNCHANGED <<tags, metafields, pOrders>>

(* shopify.js:127-133: update the existing metafield.                      *)
ProjMetafieldPut ==
  /\ sync.pc = "pmf_put"
  /\ \/ /\ metafields' = [metafields EXCEPT ![sync.target] = costWritten(sync)]
        /\ SetSync(afterMetafield(sync))
     \/ /\ SetSync(projectionEnds(sync, FALSE))
        /\ UNCHANGED metafields
  /\ OthersUnchanged /\ UNCHANGED <<tags, pOrders>>

NextSync ==
  \/ SweepStart \/ SweepList \/ SweepApply
  \/ ProjTagGet \/ ProjTagPut
  \/ ProjMetafieldPost \/ ProjMetafieldGet \/ ProjMetafieldPut

(* A supplier order as the list call returns it.                           *)
SupplierOrder(ext, st, trk, shp, price, cur) ==
  [external_id |-> ext, items |-> <<>>, deleted |-> FALSE, shiped_at |-> shp,
   by |-> 0, status |-> st, trackingNumber |-> trk,
   shippingPrice |-> price, currency |-> cur]

ExternalIds == {<<>>, ExternalId(9001), <<"shopify", NoOrderId>>, <<"etsy", 9001>>}
TrackingNumbers == {NoData, "TRK1"}
SyncShipStamps == {NoData, ShipStamp}
Prices == {NoPrice, 0, 450}
Currencies == {NoData, "EUR"}
SyncTagSets == {<<>>, <<TagVip, "POD: shipped">>, <<TagPriority, TagVip>>}

(* One second before the window has elapsed, the moment it has, and one    *)
(* second after shipping.                                                  *)
Clocks ==
  {ShipStampMs + TRACKING_WINDOW_DAYS * MsPerDay - 1000,
   ShipStampMs + TRACKING_WINDOW_DAYS * MsPerDay,
   ShipStampMs + 1000}

InitSyncRest ==
  /\ allowList = {}
  /\ lineItems = [o \in OrderIds |-> MakeLineItems(<<"A">>)]
  /\ note = [o \in OrderIds |-> <<>>]
  /\ \E costKnown \in BOOLEAN :
       metafields = [o \in OrderIds |-> [k \in MetaKeys |->
          IF costKnown /\ k = "printoteca_shipping_cost" THEN ToString(0)
          ELSE NoValue]]
  /\ chains = [c \in Deliveries |-> ChainIdle]
  /\ cancels = [k \in Cancels |-> CancelIdle]
  /\ sync = SyncIdle
  /\ other = SyncIdle
  /\ AsideIdle

(* A sweep over a supplier that holds one order, of any shape.             *)
InitSync ==
  /\ \E ext \in ExternalIds, st \in Statuses, trk \in TrackingNumbers,
        shp \in SyncShipStamps, price \in Prices, cur \in Currencies :
       pOrders = << SupplierOrder(ext, st, trk, shp, price, cur) >>
  /\ now \in Clocks
  /\ \E t \in SyncTagSets : tags = [o \in OrderIds |-> t]
  /\ InitSyncRest

SpecSync == InitSync /\ [][NextSync]_vars

(* The shapes of supplier order a longer listing is made of: one in        *)
(* printing without summary, one without correlation id, one refunded      *)
(* with tracking and a summary.                                            *)
SweepOrders ==
  {SupplierOrder(ExternalId(9001), "printing", NoData, NoData, NoPrice, NoData),
   SupplierOrder(<<>>, "paid", NoData, NoData, NoPrice, NoData),
   SupplierOrder(ExternalId(9001), "refunded", "TRK1", ShipStamp, 450, "EUR")}

(* A sweep over a supplier that holds up to one order more than a page.    *)
InitSweep ==
  /\ \E n \in 0..(PageLimit + 1) : pOrders \in [1..n -> SweepOrders]
  /\ now = ShipStampMs + 1000
  /\ \E t \in {<<>>, <<TagVip, "POD: shipped">>} : tags = [o \in OrderIds |-> t]
  /\ InitSyncRest

SpecSweep == InitSweep /\ [][NextSync]_vars

(* Every call of the sweep is an HTTP request with a timeout               *)
(* (printoteca.js and shopify.js axios clients), so a started step ends.   *)
SpecSweepFair == InitSweep /\ [][NextSync]_vars /\ WF_vars(NextSync)

(* --------------------------- two sweeps at once ------------------------ *)
(* The job endpoint takes no lock (index.js tracking job): a second sweep  *)
(* runs while the first awaits a call. The sweep whose call is answered    *)
(* next is in sync, the one still waiting is in other.                     *)
SweepSwitch ==
  /\ sync # other
  /\ sync.mode = "sweep" /\ other.mode = "sweep"
  /\ sync' = other
  /\ other' = sync
  /\ UNCHANGED <<allowList, lineItems, tags, note, metafields, pOrders, chains,
                 cancels, now, fulfillments, ful, hooks, metafieldRows, setCall,
                 built>>

NextSweeps == NextSync \/ SweepSwitch

(* Supplier orders of one storefront order at different stages, as two     *)
(* submissions of the order leave them.                                    *)
TwinOrders ==
  {SupplierOrder(ExternalId(9001), "printing", NoData, NoData, 450, "EUR"),
   SupplierOrder(ExternalId(9001), "received", "TRK1", ShipStamp, 0, NoData)}

(* Two sweeps over an unchanging supplier that holds two orders.           *)
InitSweeps ==
  /\ pOrders \in {p \in [1..2 -> TwinOrders] : p[1] # p[2]}
  /\ now = ShipStampMs + 1000
  /\ tags = [o \in OrderIds |-> <<TagVip, "POD: on hold">>]
  /\ allowList = {}
  /\ lineItems = [o \in OrderIds |-> MakeLineItems(<<"A">>)]
  /\ note = [o \in OrderIds |-> <<>>]
  /\ metafields = [o \in OrderIds |-> [k \in MetaKeys |-> NoValue]]
  /\ chains = [c \in Deliveries |-> ChainIdle]
  /\ cancels = [k \in Cancels |-> CancelIdle]
  /\ sync = SyncIdle
  /\ other = SyncIdle
  /\ AsideIdle

SpecSweeps == InitSweeps /\ [][NextSweeps]_vars

(* ------------------------------ the resync ----------------------------- *)
(* A resync that returns the fetched record without projecting it.         *)
resyncAfterFetchNoProjection(sy, i) ==
  resyncReturn([sy EXCEPT !.orders = <<[po |-> pOrders[i], ix |-> i]>>, !.idx = 1])

(* tracking.js:247-250: the fetched record goes to the projection.         *)
resyncAfterFetch(sy, i) ==
  [sy EXCEPT !.orders = <<[po |-> pOrders[i], ix |-> i]>>, !.idx = 1,
             !.pc = "apply"]

(* printoteca.js:472-474: no linkage value, no supplier call.              *)
resyncAfterLinkRead(sy, value) ==
  LET seen == [sy EXCEPT !.linkSeen = value] IN
  IF value = NoValue THEN resyncNotLinked(seen)
  ELSE [seen EXCEPT !.pc = "rfetch"]

(* index.js resync endpoint: resyncSingleShopifyOrderFromPrintoteca(id).   *)
ResyncStart(o) ==
  /\ sync.pc = "idle"
  /\ SetSync([SyncIdle EXCEPT !.mode = "resync", !.pc = "rlink_get", !.order = o,
                              !.atStart = <<tags[o], metafields[o], note[o]>>])
  /\ OthersUnchanged /\ UNCHANGED <<tags, metafields, pOrders>>

(* printoteca.js:472 getPrintotecaOrderIdMetafield.                        *)
ResyncLinkGet ==
  /\ sync.pc = "rlink_get"
  /\ \/ SetSync(resyncAfterLinkRead(sync, LinkOf(sync.order)))
     \/ SetSync(resyncRaise(sync))
  /\ OthersUnchanged /\ UNCHANGED <<tags, metafields, pOrders>>

(* printoteca.js:474 getPrintotecaOrderById.                               *)
ResyncFetch ==
  LET i == OrderNamedBy(sync.linkSeen)
      called == [sync EXCEPT !.fetchCalls = @ + 1]
  IN
  /\ sync.pc = "rfetch"
  /\ \/ /\ i # 0 /\ ~pOrders[i].deleted
        /\ SetSync(resyncAfterFetch(called, i))
     \/ SetSync(resyncRaise(called))
  /\ OthersUnchanged /\ UNCHANGED <<tags, metafields, pOrders>>

NextResync ==
  \/ ResyncStart(9001) \/ ResyncLinkGet \/ ResyncFetch \/ SweepApply
  \/ ProjTagGet \/ ProjTagPut
  \/ ProjMetafieldPost \/ ProjMetafieldGet \/ ProjMetafieldPut

(* The shapes of the supplier order a resync may find.                     *)
ResyncOrders ==
  {[SupplierOrder(ext, st, NoData, NoData, price, "EUR") EXCEPT !.deleted = del] :
     ext \in {ExternalId(9001), <<>>}, st \in {"printing", "refunded", "cancelled"},
     price \in {NoPrice, 450}, del \in BOOLEAN}

(* The order is linked or not, and the supplier holds an order or none.    *)
InitResync ==
  /\ allowList = {}
  /\ lineItems = [o \in OrderIds |-> MakeLineItems(<<"A">>)]
  /\ note = [o \in OrderIds |-> <<>>]
  /\ \E linked \in BOOLEAN, costKnown \in BOOLEAN :
       metafields = [o \in OrderIds |-> [k \in MetaKeys |->
          IF linked /\ k = "printoteca_order_id" THEN ToString(1)
          ELSE IF costKnown /\ k = "printoteca_shipping_cost" THEN ToString(0)
          ELSE NoValue]]
  /\ \/ pOrders = <<>>
     \/ \E po \in ResyncOrders : pOrders = <<po>>
  /\ \E t \in SyncTagSets : tags = [o \in OrderIds |-> t]
  /\ now = ShipStampMs + 1000
  /\ chains = [c \in Deliveries |-> ChainIdle]
  /\ cancels = [k \in Cancels |-> CancelIdle]
  /\ sync = SyncIdle
  /\ other = SyncIdle
  /\ AsideIdle

SpecResync == InitResync /\ [][NextResync]_vars

(* --------------------------- the fulfillment --------------------------- *)
MaxCalls == 3
TrackingValues == {"TRK1", "TRK2"}

(* A check that never finds the tracking number.                           *)
orderHasTrackingNever(order, trackingNumber) == FALSE

(* shopify.js (earlier version) orderHasTracking                           *)
orderHasTracking(order, trackingNumber) ==
  \E i \in DOMAIN order.fulfillments :
    \/ trackingNumber \in Range(order.fulfillments[i].tracking_numbers)
    \/ order.fulfillments[i].tracking_number = trackingNumber

(* skuQtyMap[sku] of ensureFulfillmentWithTracking: the quantities of the  *)
(* supplier items with that pn added up, items without pn or quantity      *)
(* skipped; 0 when the map has no entry.                                   *)
RECURSIVE skuQtyMap(_, _)
skuQtyMap(items, sku) ==
  IF items = <<>> THEN 0
  ELSE LET pItem == Head(items)
           qty == IF pItem.pn = NoData \/ pItem.quantity = 0 THEN 0
                  ELSE IF pItem.pn = sku THEN pItem.quantity ELSE 0
       IN qty + skuQtyMap(Tail(items), sku)

Min(a, b) == IF a < b THEN a ELSE b

(* The loop over order.line_items that builds lineItemsForFulfillment.     *)
RECURSIVE matchLineItems(_, _)
matchLineItems(line_items, items) ==
  IF line_items = <<>> THEN <<>>
  ELSE LET li == Head(line_items)
           rest == matchLineItems(Tail(line_items), items)
           qtyToFulfill == Min(li.quantity, skuQtyMap(items, li.sku))
       IN IF li.sku = NoSku \/ skuQtyMap(items, li.sku) = 0 THEN rest
          ELSE IF qtyToFulfill > 0
               THEN <<[id |-> li.id, quantity |-> qtyToFulfill]>> \o rest
               ELSE rest

(* lineItemsForFulfillment: null unless a non-empty list was given.        *)
lineItemsForFulfillment(order, items) ==
  IF Len(items) > 0
  THEN [isArray |-> TRUE, items |-> matchLineItems(order.line_items, items)]
  ELSE [isArray |-> FALSE, items |-> <<>>]

(* createShopifyFulfillment: the override when it is a non-empty array,    *)
(* else every line item of the order.                                      *)
fulfillmentLineItems(order, lineItemsOverride) ==
  IF lineItemsOverride.isArray /\ Len(lineItemsOverride.items) > 0
  THEN lineItemsOverride.items
  ELSE [i \in DOMAIN order.line_items |->
          [id |-> order.line_items[i].id, quantity |-> order.line_items[i].quantity]]

(* The call is over with this status, or threw.                            *)
ensureEnds(fu, status, sent) ==
  [fu EXCEPT !.pc = "done", !.snap = <<>>, !.lineItemsOverride = <<>>,
             !.calls = Append(@, [trackingNumber |-> fu.trackingNumber,
                                  status |-> status, sent |-> sent])]

(* ensureFulfillmentWithTracking after getShopifyOrder, up to the POST.    *)
afterGetShopifyOrder(fu, order) ==
  IF orderHasTracking(order, fu.trackingNumber)
  THEN ensureEnds(fu, "already_exists", <<>>)
  ELSE LET posted == fulfillmentLineItems(order,
                           lineItemsForFulfillment(order, fu.printotecaItems))
       IN IF Len(posted) = 0 THEN ensureEnds(fu, "no_items", <<>>)
          ELSE [fu EXCEPT !.pc = "post", !.lineItemsOverride = posted]

SetFul(rec) == ful' = rec

FulOthersUnchanged ==
  UNCHANGED <<allowList, lineItems, tags, note, metafields, pOrders, chains,
              cancels, sync, other, now, hooks, metafieldRows, setCall, built>>

(* tracking.js (earlier version) 69-79: one more call, after the last one  *)
(* is over.                                                                *)
EnsureStart(o) ==
  /\ ful.pc \in {"idle", "done"}
  /\ Len(ful.calls) < MaxCalls
  /\ \E t \in TrackingValues :
       SetFul([ful EXCEPT !.pc = "get", !.order = o, !.trackingNumber = t])
  /\ FulOthersUnchanged /\ UNCHANGED fulfillments

(* getShopifyOrder                                                         *)
EnsureGet ==
  /\ ful.pc = "get"
  /\ \/ SetFul(afterGetShopifyOrder(ful,
                 [fulfillments |-> fulfillments[ful.order],
                  line_items |-> lineItems[ful.order]]))
     \/ SetFul(ensureEnds(ful, "raised", <<>>))
  /\ FulOthersUnchanged /\ UNCHANGED fulfillments

(* createShopifyFulfillment: client.post of the fulfillment.               *)
EnsurePost ==
  /\ ful.pc = "post"
  /\ \/ /\ fulfillments' = [fulfillments EXCEPT ![ful.order] =
              Append(@, [tracking_number |-> ful.trackingNumber,
                         tracking_numbers |-> <<ful.trackingNumber>>,
                         line_items |-> ful.lineItemsOverride])]
        /\ SetFul(ensureEnds(ful, "created", ful.lineItemsOverride))
     \/ /\ SetFul(ensureEnds(ful, "raised", <<>>))
        /\ UNCHANGED fulfillments
  /\ FulOthersUnchanged

NextFulfil == EnsureStart(9001) \/ EnsureGet \/ EnsurePost

LineQuantities == {1, 2}
SupplierItems == [pn : {"A", "X"}, quantity : {0, 2}]

(* An order of up to MaxItems line items, none fulfilled, and the item     *)
(* list of the supplier order, empty when the supplier gave none.          *)
InitFulfil ==
  /\ allowList = {}
  /\ \E n \in 0..MaxItems : \E skus \in [1..n -> Skus], qs \in [1..n -> LineQuantities] :
       lineItems = [o \in OrderIds |->
          [i \in 1..n |-> [id |-> i, sku |-> skus[i], quantity |-> qs[i]]]]
  /\ tags = [o \in OrderIds |-> <<>>]
  /\ note = [o \in OrderIds |-> <<>>]
  /\ InitMetafields(TRUE)
  /\ pOrders = <<>>
  /\ chains = [c \in Deliveries |-> ChainIdle]
  /\ cancels = [k \in Cancels |-> CancelIdle]
  /\ sync = SyncIdle
  /\ other = SyncIdle
  /\ now = 0
  /\ fulfillments = [o \in OrderIds |-> <<>>]
  /\ PureIdle
  /\ \E items \in SeqsUpTo(SupplierItems, MaxItems) :
       ful = [FulIdle EXCEPT !.printotecaItems = items]
  /\ hooks = <<>>

SpecFulfil == InitFulfil /\ [][NextFulfil]_vars

(* ------------------------- the webhook endpoints ----------------------- *)
Secret == "whsec"
RightDigest == "digest(body, whsec)"
OtherDigest == "digest(body, other)"
ShortHmac == "short"

(* The length of the header value, a base64 SHA-256 digest having 44       *)
(* characters.                                                             *)
HmacLength(h) == IF h = ShortHmac THEN 5 ELSE 44

(* crypto.createHmac('sha256', secret).update(rawBody).digest('base64')    *)
HmacDigest(body, secret) ==
  IF secret = Secret THEN RightDigest ELSE OtherDigest

(* A verification that compares lengths only.                              *)
verifyLengthOnly(req) ==
  /\ req.hmac # NoData /\ req.secret # NoData
  /\ HmacLength(HmacDigest(req.body, req.secret)) = HmacLength(req.hmac)

(* index.js verifyShopifyWebhook                                           *)
verifyShopifyWebhook(req) ==
  /\ req.hmac # NoData
  /\ req.secret # NoData
  /\ HmacLength(HmacDigest(req.body, req.secret)) = HmacLength(req.hmac)
  /\ HmacDigest(req.body, req.secret) = req.hmac

(* JSON.parse(rawBody) and the reads of order.id, order.name succeed.      *)
parses(body) == body = "order"

(* index.js webhook handlers: the answer, and whether the engine is        *)
(* started before it is sent.                                              *)
handle(req, expected) ==
  IF ~verifyShopifyWebhook(req) THEN [status |-> 401, invoked |-> FALSE]
  ELSE IF req.topic # expected THEN [status |-> 200, invoked |-> FALSE]
  ELSE IF ~parses(req.body) THEN [status |-> 500, invoked |-> FALSE]
  ELSE [status |-> 200, invoked |-> TRUE]

MaxHooks == 2

Requests ==
  [hmac : {NoData, ShortHmac, OtherDigest, RightDigest},
   secret : {NoData, Secret},
   topic : {"orders/paid", "orders/cancelled", "orders/updated"},
   body : {"order", "malformed"}]

HookOthersUnchanged ==
  UNCHANGED <<sync, other, now, fulfillments, ful, metafieldRows, setCall, built>>
  /\ StoreUnchanged /\ ConfigUnchanged

(* index.js POST /webhooks/shopify/orders-paid                             *)
WebhookOrdersPaid(c) ==
  /\ Len(hooks) < MaxHooks
  /\ chains[c].pc = "idle"
  /\ \E req \in Requests, o \in OrderIds :
       LET answer == handle(req, "orders/paid")
           queued == [ChainIdle EXCEPT !.pc = "timer", !.order = o,
                                       !.driver = "queue", !.outer = 1]
       IN
       /\ IF answer.invoked THEN SetChain(c, queued) ELSE UNCHANGED chains
       /\ hooks' = Append(hooks,
            [route |-> "orders-paid", req |-> req, status |-> answer.status,
             invoked |-> answer.invoked,
             engineAtAnswer |-> IF answer.invoked THEN queued.pc ELSE "none"])
  /\ HookOthersUnchanged /\ UNCHANGED cancels

(* index.js POST /webhooks/shopify/orders-cancelled                        *)
WebhookOrdersCancelled(k) ==
  /\ Len(hooks) < MaxHooks
  /\ cancels[k].pc = "idle"
  /\ \E req \in Requests, o \in OrderIds :
       LET answer == handle(req, "orders/cancelled")
           started == [CancelIdle EXCEPT !.pc = "link_get", !.order = o,
                                         !.tagsAtStart = tags[o],
                                         !.pending = submissionPending(o)]
       IN
       /\ IF answer.invoked THEN SetCancel(k, started) ELSE UNCHANGED cancels
       /\ hooks' = Append(hooks,
            [route |-> "orders-cancelled", req |-> req, status |-> answer.status,
             invoked |-> answer.invoked,
             engineAtAnswer |-> IF answer.invoked THEN started.pc ELSE "none"])
  /\ HookOthersUnchanged /\ UNCHANGED chains

NextHooks ==
  \/ WebhookOrdersPaid(1) \/ WebhookOrdersCancelled(1)
  \/ EngineStep(1) \/ CancelEngineStep(1)

(* A paid order with a valid line item beside one without SKU, not yet     *)
(* submitted, or already linked to a supplier order that has shipped.      *)
InitHooks ==
  /\ allowList = {}
  /\ lineItems = [o \in OrderIds |-> MakeLineItems(<<"A", NoSku>>)]
  /\ tags = [o \in OrderIds |-> <<>>]
  /\ note = [o \in OrderIds |-> <<>>]
  /\ \E linked \in BOOLEAN :
       /\ InitMetafields(linked)
       /\ pOrders = IF linked
                    THEN << [PriorOrder(9001) EXCEPT !.shiped_at = ShipStamp] >>
                    ELSE <<>>
  /\ chains = [c \in Deliveries |-> ChainIdle]
  /\ cancels = [k \in Cancels |-> CancelIdle]
  /\ sync = SyncIdle
  /\ other = SyncIdle
  /\ AsideIdle
  /\ now = 0

SpecHooks == InitHooks /\ [][NextHooks]_vars

(* ------------------------ two deliveries of one order ------------------ *)
(* Two paid-webhook deliveries for the order, each queued on its own.      *)
NextRace ==
  \/ OrdersPaidQueue(1) \/ OrdersPaidQueue(2)
  \/ EngineStep(1) \/ EngineStep(2)

InitRace ==
  /\ allowList = {}
  /\ lineItems = [o \in OrderIds |-> MakeLineItems(<<"A", NoSku>>)]
  /\ tags = [o \in OrderIds |-> <<>>]
  /\ note = [o \in OrderIds |-> <<>>]
  /\ InitMetafields(FALSE)
  /\ pOrders = <<>>
  /\ chains = [c \in Deliveries |-> ChainIdle]
  /\ cancels = [k \in Cancels |-> CancelIdle]
  /\ sync = SyncIdle
  /\ other = SyncIdle
  /\ AsideIdle
  /\ now = 0

SpecRace == InitRace /\ [][NextRace]_vars

(* C11: a finished cancel that found a linkage has attempted the supplier   *)
(* delete.                                                                 *)
C11_LinkedCancelAttemptsDelete ==
  \A k \in Cancels :
    LET cn == cancels[k] IN
    (cn.pc = "done" /\ cn.printotecaId # NoValue) => cn.deleteCalls >= 1

C13_AtMostOnePodTag ==
  \A o \in OrderIds :
    Cardinality({t \in Range(tags[o]) : t \in PodTags}) <= 1

(* The tag set of the projected order changed as the log entry e of a      *)
(* sweep over one supplier order says.                                     *)
TagsNow(e) == Range(tags[e.target])
TagsThen(e) == Range(e.tagsBefore)

(* C14 as stated: after the projection wrote tag t the tag set is the      *)
(* previous one without the members of the enumeration, plus t.            *)
C14_ReplaceStripsEnumeration ==
  \A i \in DOMAIN sync.log :
    LET e == sync.log[i] IN
    e.tagPut => TagsNow(e) = (TagsThen(e) \ PodTags) \cup {e.tag}

(* C14 amended: after the projection wrote tag t, t is on the order, no    *)
(* other tag beginning with 'POD:' is (so no other member of the           *)
(* enumeration), and every tag not beginning with 'POD:' is there exactly  *)
(* when it was there before; no tag is listed twice.                       *)
C14_ReplaceStripsPodPrefix ==
  \A i \in DOMAIN sync.log :
    LET e == sync.log[i] IN
    e.tagPut =>
      /\ e.tag \in PodTags /\ e.tag \in TagsNow(e)
      /\ \A t \in TagsNow(e) : t \in PodTags => t = e.tag
      /\ TagPriority \notin TagsNow(e)
      /\ \A t \in (TagsNow(e) \cup TagsThen(e)) \ (PodTags \cup {TagPriority}) :
           t \in TagsNow(e) <=> t \in TagsThen(e)
      /\ Cardinality(TagsNow(e)) = Len(tags[e.target])

C14_Witness ==
  /\ sync.pc = "done" /\ Len(sync.log) = 1 /\ sync.log[1].tagPut
  /\ sync.log[1].tagsBefore = <<TagVip, "POD: shipped">>
  /\ tags[9001] = <<TagVip, "POD: printing">>

(* The lower-cased status of a supplier order is one of the given names.   *)
StatusIn(po, names) == toLowerCase(po.status) \in names
HasShipping(po) == po.trackingNumber # NoData \/ po.shiped_at # NoData

(* C15: the tag computed for a supplier order follows the policy in        *)
(* priority order: refunded and on hold before the shipping fields, these  *)
(* before printing, printing before in production, else no tag; and the    *)
(* projection uses that tag.                                               *)
C15_MappingFollowsPolicy ==
  /\ \A i \in DOMAIN pOrders :
       LET po == pOrders[i]
           tag == mapPrintotecaStatusToPodTag(po, now)
           special == StatusIn(po, {"refunded", "internal order query"})
       IN
       /\ StatusIn(po, {"refunded"}) => tag = "POD: refunded"
       /\ StatusIn(po, {"internal order query"}) => tag = "POD: on hold"
       /\ (~special /\ HasShipping(po)) => tag \in {"POD: shipped", "POD: delivered"}
       /\ (~special /\ ~HasShipping(po)
             /\ StatusIn(po, {"stock allocation", "printing", "quality control"}))
            => tag = "POD: printing"
       /\ (~special /\ ~HasShipping(po)
             /\ StatusIn(po, {"received", "in progress", "paid"}))
            => tag = "POD: in production"
       /\ (~HasShipping(po)
             /\ ~StatusIn(po, {"refunded", "internal order query", "stock allocation",
                               "printing", "quality control", "received",
                               "in progress", "paid"}))
            => tag = NoData
  /\ \A i \in DOMAIN sync.log :
       LET e == sync.log[i] IN
       /\ e.target # NoOrderId =>
            e.tag = mapPrintotecaStatusToPodTag(pOrders[e.ix], now)
       /\ e.tagPut => e.tag \in Range(tags[e.target])

C15_Witness ==
  /\ sync.pc = "done" /\ Len(sync.log) = 1 /\ sync.log[1].tagPut
  /\ pOrders[1].status = "refunded"
  /\ pOrders[1].trackingNumber # NoData /\ pOrders[1].shiped_at # NoData
  /\ "POD: refunded" \in Range(tags[9001])

(* C16: for a supplier order that is neither refunded nor on hold and has  *)
(* a ship timestamp the tag is delivered when the window has elapsed, at   *)
(* the boundary too, and shipped one second before it and earlier; with    *)
(* tracking and no ship timestamp it is shipped.                           *)
C16_DeliveredAtWindowBoundary ==
  \A i \in DOMAIN pOrders :
    LET po == pOrders[i]
        tag == mapPrintotecaStatusToPodTag(po, now)
        boundary == ShipStampMs + TRACKING_WINDOW_DAYS * MsPerDay
    IN
    ~StatusIn(po, {"refunded", "internal order query"}) =>
      /\ (po.shiped_at = ShipStamp /\ now = boundary) => tag = "POD: delivered"
      /\ (po.shiped_at = ShipStamp /\ now = boundary - 1000) => tag = "POD: shipped"
      /\ po.shiped_at = ShipStamp =>
           (tag = "POD: delivered" <=> now - ShipStampMs >= 14 * 24 * 60 * 60 * 1000)
      /\ po.shiped_at = ShipStamp => tag \in {"POD: delivered", "POD: shipped"}
      /\ (po.shiped_at = NoData /\ po.trackingNumber # NoData) => tag = "POD: shipped"

C16_Witness ==
  /\ sync.pc = "done" /\ Len(sync.log) = 1 /\ sync.log[1].tagPut
  /\ pOrders[1].shiped_at = ShipStamp /\ pOrders[1].status = "printing"
  /\ now = ShipStampMs + TRACKING_WINDOW_DAYS * MsPerDay
  /\ "POD: delivered" \in Range(tags[9001])

(* The correlation id is shopify:<id> with a non-empty id.                 *)
RecognizedExternalId(ext) ==
  Len(ext) = 2 /\ ext[1] = "shopify" /\ ext[2] # NoOrderId

(* C17: the projection of a supplier order whose correlation id is absent  *)
(* or not shopify:<id> with a non-empty id makes no storefront read and no *)
(* write; and with no tag computed it leaves the tags as they are.         *)
C17_UnrecognizedIdTouchesNothing ==
  \A i \in DOMAIN sync.log :
    LET e == sync.log[i] IN
    /\ ~RecognizedExternalId(pOrders[e.ix].external_id) =>
         (e.reads = 0 /\ ~e.tagPut /\ e.mfTried = {})
    /\ (e.tag = NoData /\ e.target \in OrderIds) =>
         (~e.tagPut /\ tags[e.target] = e.tagsBefore)


CostKey == "printoteca_shipping_cost"
CurrencyKey == "printoteca_shipping_currency"

FailedEntries == {j \in DOMAIN sync.log : ~sync.log[j].ok}

(* C19: the orders are projected one by one in the order listed, one whose *)
(* projection failed is counted in errors, and the sweep goes on after it: *)
(* a sweep that returned has projected every order of every page, and one  *)
(* that stopped did so at a list call, after every order of the pages      *)
(* before it.                                                              *)
C19_FailedOrderDoesNotStopSweep ==
  /\ \A j \in DOMAIN sync.log : sync.log[j].ix = j
  /\ sync.errors = Cardinality(FailedEntries)
  /\ sync.synced = Len(sync.log) - Cardinality(FailedEntries)
  /\ sync.outcome = "returned" => Len(sync.log) = Len(pOrders)
  /\ sync.outcome = "raised" => Len(sync.log) = (Len(sync.listed) - 1) * PageLimit
  /\ (sync.pc \notin {"idle", "list", "done"}) =>
       Len(sync.log) = (sync.page - 1) * PageLimit + sync.idx - 1

C19_Witness ==
  /\ sync.pc = "done" /\ sync.outcome = "returned"
  /\ Len(pOrders) = PageLimit + 1 /\ Len(sync.log) = PageLimit + 1
  /\ ~sync.log[1].ok
  /\ \A j \in 2..Len(sync.log) : sync.log[j].ok /\ sync.log[j].tagPut
  /\ sync.errors = 1 /\ sync.synced = PageLimit

(* C20 as stated: whatever calls fail, a sweep that ends returns its       *)
(* counts.                                                                 *)
C20_SweepAlwaysReturns ==
  sync.pc = "done" => sync.outcome = "returned"

(* C20 amended: a sweep that ends raises exactly when a list call failed,  *)
(* whatever storefront calls failed; otherwise it returns counts that add  *)
(* up to the orders listed, the failed projections in errors.              *)
C20_SweepRaisesOnlyOnListFailure ==
  sync.pc = "done" =>
    /\ sync.outcome \in {"returned", "raised"}
    /\ sync.outcome = "raised" <=> sync.listFailed
    /\ sync.outcome = "returned" =>
         /\ sync.synced + sync.errors = Len(pOrders)
         /\ sync.errors = Cardinality(FailedEntries)

C20_Witness ==
  /\ sync.pc = "done" /\ sync.outcome = "raised" /\ sync.listFailed
  /\ sync.listed = <<1, 2>>
  /\ sync.errors >= 1 /\ sync.synced >= 1


(* The number of orders on page p of the supplier's listing.               *)
PageSize(p) == Len(PageOf(p))

PagesInOrder ==
  /\ \A j \in DOMAIN sync.listed : sync.listed[j] = j
  /\ \A j \in DOMAIN sync.listed :
       j < Len(sync.listed) => PageSize(sync.listed[j]) = PageLimit
  /\ (sync.pc = "done" /\ sync.outcome = "returned") =>
       /\ Len(sync.listed) >= 1
       /\ PageSize(sync.listed[Len(sync.listed)]) < PageLimit
       /\ \A i \in DOMAIN pOrders : \E j \in DOMAIN sync.log : sync.log[j].ix = i
  /\ sync.pc = "list" =>
       \A p \in 1..(sync.page - 1) :
         \A k \in DOMAIN PageOf(p) :
           \E j \in DOMAIN sync.log : sync.log[j].ix = PageOf(p)[k].ix

(* C21: the sweep asks for pages 1, 2, ... in order, only after a full     *)
(* page asks for another one, has projected every order of the pages it    *)
(* fetched when it asks for the next or returns, returns after the first   *)
(* empty or short page; and it ends.                                       *)
C21_PagesInOrderUntilShortPage ==
  [](PagesInOrder) /\ <>(sync.pc = "done")

C21_Witness ==
  /\ sync.pc = "done" /\ sync.outcome = "returned"
  /\ Len(pOrders) = PageLimit /\ sync.listed = <<1, 2>>
  /\ Len(sync.log) = PageLimit


FulfillmentsWith(o, t) ==
  {i \in DOMAIN fulfillments[o] : fulfillments[o][i].tracking_number = t}

(* C23 as stated: of two calls in sequence with the same tracking number   *)
(* the second returns already_exists.                                      *)
C23_SecondCallAlreadyExists ==
  \A i, j \in DOMAIN ful.calls :
    (i < j /\ ful.calls[i].trackingNumber = ful.calls[j].trackingNumber) =>
      ful.calls[j].status = "already_exists"

(* C23 amended: once a call with a tracking number returned created or     *)
(* already_exists, every later call with that number that returns, returns *)
(* already_exists, and creates nothing; so at most one call per tracking   *)
(* number creates, and the order has at most one fulfillment carrying it.  *)
C23_AlreadyExistsOnceCreated ==
  /\ \A i, j \in DOMAIN ful.calls :
       (i < j /\ ful.calls[i].trackingNumber = ful.calls[j].trackingNumber
              /\ ful.calls[i].status \in {"created", "already_exists"}) =>
         (ful.calls[j].status \in {"already_exists", "raised"}
            /\ ful.calls[j].sent = <<>>)
  /\ \A t \in TrackingValues :
       /\ Cardinality(FulfillmentsWith(9001, t)) <= 1
       /\ Cardinality(FulfillmentsWith(9001, t)) =
            Cardinality({i \in DOMAIN ful.calls :
               ful.calls[i].trackingNumber = t /\ ful.calls[i].status = "created"})

C23_Witness ==
  /\ ful.pc = "done" /\ Len(ful.calls) = 2
  /\ ful.calls[1].trackingNumber = "TRK1" /\ ful.calls[1].status = "created"
  /\ ful.calls[2].trackingNumber = "TRK1" /\ ful.calls[2].status = "already_exists"
  /\ Cardinality(FulfillmentsWith(9001, "TRK1")) = 1

(* The quantity a list of {id, quantity} entries holds for the line items  *)
(* of the order with the given SKU.                                        *)
RECURSIVE SentForSku(_, _, _)
SentForSku(sent, line_items, sku) ==
  IF sent = <<>> THEN 0
  ELSE (IF \E k \in DOMAIN line_items :
             line_items[k].id = Head(sent).id /\ line_items[k].sku = sku
        THEN Head(sent).quantity ELSE 0)
       + SentForSku(Tail(sent), line_items, sku)

(* C24: a call given a non-empty item list that creates a fulfillment      *)
(* covers only line items whose SKU is in the list, each at most at its    *)
(* ordered quantity and per SKU at most the supplier's quantity; when no   *)
(* line item matches it creates nothing and returns no_items; a call       *)
(* given no list covers the whole order.                                   *)
C24_FulfillmentCoversMatchedItems ==
  \A c \in DOMAIN ful.calls :
    LET call == ful.calls[c]
        line_items == lineItems[9001]
        items == ful.printotecaItems
        matches == \E k \in DOMAIN line_items : skuQtyMap(items, line_items[k].sku) > 0
    IN
    /\ (Len(items) > 0 /\ call.status = "created") =>
         /\ \A n \in DOMAIN call.sent :
              \E k \in DOMAIN line_items :
                /\ line_items[k].id = call.sent[n].id
                /\ skuQtyMap(items, line_items[k].sku) > 0
                /\ call.sent[n].quantity <= line_items[k].quantity
         /\ \A sku \in Skus :
              SentForSku(call.sent, line_items, sku) <= skuQtyMap(items, sku)
    /\ (Len(items) > 0 /\ ~matches) => call.status \in {"no_items", "already_exists", "raised"}
    /\ (Len(items) = 0 /\ call.status = "created") =>
         call.sent = [k \in DOMAIN line_items |->
                        [id |-> line_items[k].id, quantity |-> line_items[k].quantity]]


(* The header is present, as long as the digest of the body under the      *)
(* configured secret, and equal to it.                                     *)
SignatureVerified(req) ==
  /\ req.hmac # NoData /\ req.secret = Secret
  /\ HmacLength(req.hmac) = 44 /\ req.hmac = RightDigest

ExpectedTopic(route) ==
  IF route = "orders-paid" THEN "orders/paid" ELSE "orders/cancelled"

C26_VerifiedWebhookAnswered200 ==
  \A i \in DOMAIN hooks :
    LET e == hooks[i] IN
    SignatureVerified(e.req) =>
      /\ e.status = 200
      /\ e.invoked => e.engineAtAnswer \in {"timer", "link_get"}


(* C28: a supplier order created by a submission for an order carries the  *)
(* correlation id shopify:<order id>; when the submission has returned     *)
(* created, the linkage metafield of the order held the id of the created  *)
(* supplier order at the return and still holds it, that id names the      *)
(* supplier order, and the projection resolves the supplier order's        *)
(* correlation id to the order.                                            *)
C28_LinkageRoundTrip ==
  /\ \A i \in DOMAIN pOrders :
       pOrders[i].by # 0 =>
         pOrders[i].external_id = <<"shopify", chains[pOrders[i].by].order>>
  /\ \A c \in Deliveries :
       LET ch == chains[c] IN
       (ch.pc = "done" /\ ch.result = "created") =>
         /\ ch.pid \in DOMAIN pOrders /\ pOrders[ch.pid].by = c
         /\ ch.linkAtReturn = ToString(ch.pid)
         /\ LinkOf(ch.order) = ch.linkAtReturn
         /\ OrderNamedBy(LinkOf(ch.order)) = ch.pid
         /\ isShopifyExternalId(pOrders[ch.pid].external_id)
         /\ shopifyOrderIdOf(pOrders[ch.pid].external_id) = ch.order

C28_Witness ==
  /\ chains[1].pc = "done" /\ chains[1].result = "created"
  /\ ~chains[1].linkedAtStart /\ chains[1].createCalls = 1 /\ chains[1].pid = 1
  /\ LinkOf(9001) = ToString(1) /\ pOrders[1].external_id = ExternalId(9001)

(* C29: before the n-th create call of a chain exactly n timers have       *)
(* elapsed, the send delay and one retry delay after each earlier create,  *)
(* so none before the send delay has; and every timer has the one          *)
(* configured delay.                                                       *)
C29_OneFixedTimerBeforeEachCreate ==
  \A c \in Deliveries :
    LET ch == chains[c] IN
    /\ ch.createCalls = Len(ch.createAfter)
    /\ \A n \in DOMAIN ch.createAfter : ch.createAfter[n] = n
    /\ ch.pc = "timer" => ch.createCalls = 0
    /\ ch.createCalls > 0 => (Len(ch.timers) >= 1 /\ ch.timers[1] = sendDelay)
    /\ \A n \in DOMAIN ch.timers : ch.timers[n] = 300000

C29_Witness ==
  /\ chains[1].createCalls = 2 /\ chains[1].createAfter = <<1, 2>>
  /\ chains[1].timers = <<PRINTOTECA_RETRY_DELAY_MS, PRINTOTECA_RETRY_DELAY_MS>>


(* Both deliveries found the order unlinked when their engine started and  *)
(* both have returned created.                                             *)
BothCreated ==
  \A c \in Deliveries :
    /\ chains[c].pc = "done" /\ chains[c].result = "created"
    /\ ~chains[c].linkedAtStart

(* C30: the supplier orders that two deliveries for one order create all   *)
(* carry the one correlation id of the order; when both deliveries found   *)
(* the order unlinked and both returned created, there are two distinct    *)
(* live supplier orders for it and the linkage metafield names one of the  *)
(* two.                                                                    *)
C30_RacingDeliveriesDuplicate ==
  /\ \A i \in DOMAIN pOrders :
       pOrders[i].by \in Deliveries => pOrders[i].external_id = ExternalId(9001)
  /\ BothCreated =>
       /\ chains[1].pid # chains[2].pid
       /\ pOrders[chains[1].pid].by = 1 /\ pOrders[chains[2].pid].by = 2
       /\ ~pOrders[chains[1].pid].deleted /\ ~pOrders[chains[2].pid].deleted
       /\ LinkOf(9001) \in {ToString(chains[1].pid), ToString(chains[2].pid)}
       /\ Cardinality({i \in DOMAIN pOrders : ToString(i) = LinkOf(9001)}) = 1

C30_Witness ==
  /\ BothCreated
  /\ chains[1].createCalls = 1 /\ chains[2].createCalls = 1
  /\ Len(pOrders) = 2
  /\ pOrders[1].external_id = pOrders[2].external_id
  /\ LinkOf(9001) = ToString(chains[1].pid)


(* ------------------------- every operation in turn --------------------- *)
(* No submission, cancellation, sweep or resync is under way.              *)
ChainQuiet == \A c \in Deliveries : chains[c].pc \in {"idle", "done"}
CancelQuiet == \A k \in Cancels : cancels[k].pc \in {"idle", "done"}
SyncQuiet == sync.pc \in {"idle", "done"}

(* Each operation starts while the others are at rest.                     *)
PaidInTurn == CancelQuiet /\ SyncQuiet /\ OrdersPaidQueue(1)
CancelledInTurn == ChainQuiet /\ SyncQuiet /\ OrdersCancelled(1)
SweepInTurn == ChainQuiet /\ CancelQuiet /\ SweepStart
ResyncInTurn == ChainQuiet /\ CancelQuiet /\ ResyncStart(9001)

(* A paid delivery, a cancelled delivery, and one run of the sweep or of   *)
(* the resync, on one store, one after another in any order.               *)
NextEvery ==
  \/ PaidInTurn \/ EngineStep(1)
  \/ CancelledInTurn \/ CancelEngineStep(1)
  \/ SweepInTurn \/ SweepList \/ SweepApply
  \/ ResyncInTurn \/ ResyncLinkGet \/ ResyncFetch
  \/ ProjTagGet \/ ProjTagPut
  \/ ProjMetafieldPost \/ ProjMetafieldGet \/ ProjMetafieldPut

(* An order with one known and one unknown SKU: new, or already linked to  *)
(* a supplier order, shipped or not, whose shipping price was projected    *)
(* once at another amount.                                                 *)
InitEvery ==
  /\ allowList = {}
  /\ lineItems = [o \in OrderIds |-> MakeLineItems(<<"A", NoSku>>)]
  /\ tags = [o \in OrderIds |-> <<>>]
  /\ note = [o \in OrderIds |-> <<>>]
  /\ \E linked \in BOOLEAN, stamp \in SyncShipStamps :
       /\ metafields = [o \in OrderIds |-> [k \in MetaKeys |->
            IF linked /\ k = "printoteca_order_id" THEN ToString(1)
            ELSE IF linked /\ k = "printoteca_shipping_cost" THEN ToString(0)
            ELSE NoValue]]
       /\ pOrders = IF linked
                    THEN << [PriorOrder(9001) EXCEPT !.shiped_at = stamp,
                                                     !.shippingPrice = 450,
                                                     !.currency = "EUR"] >>
                    ELSE <<>>
  /\ chains = [c \in Deliveries |-> ChainIdle]
  /\ cancels = [k \in Cancels |-> CancelIdle]
  /\ sync = SyncIdle
  /\ other = SyncIdle
  /\ AsideIdle
  /\ now = ShipStampMs + 1000

SpecEvery == InitEvery /\ [][NextEvery]_vars

(* C27: every step of submit, cancel, projection, sweep and resync leaves  *)
(* the order's line items as they were; a step that changes the tags       *)
(* leaves the note and the metafields as they were, a step that changes    *)
(* the note leaves the tags and the metafields as they were, and a step    *)
(* that changes a pod metafield leaves the tags and the note as they were. *)
C27_OnlyTagsNoteMetafieldsWritten ==
  [][ /\ lineItems' = lineItems
      /\ (tags' # tags => note' = note /\ metafields' = metafields)
      /\ (note' # note => tags' = tags /\ metafields' = metafields)
      /\ (metafields' # metafields => tags' = tags /\ note' = note) ]_vars

(* A tag write has followed a note write on the same order.                *)
C27_Witness ==
  /\ chains[1].skuNote = "ok"
  /\ chains[1].errTag = "ok"
  /\ note[9001] # <<>>
  /\ TagSupplierError \in Range(tags[9001])
  /\ lineItems[9001] = MakeLineItems(<<"A", NoSku>>)


(* What one projection whose calls all succeed leaves in the tags and in   *)
(* the metafields of the storefront orders.                                *)
ProjectedTags(po, t) ==
  LET tag == mapPrintotecaStatusToPodTag(po, now)
      target == shopifyOrderIdOf(po.external_id)
  IN IF isShopifyExternalId(po.external_id) /\ tag # NoData /\ target \in OrderIds
     THEN [t EXCEPT ![target] = replacePodStatusTagBody(t[target], tag)]
     ELSE t

ProjectedMeta(po, mf) ==
  LET target == shopifyOrderIdOf(po.external_id)
      keys == costKeys(po)
      cost == [mf EXCEPT ![target] = writeMetafield(@, "printoteca_shipping_cost",
                                                    po.shippingPrice)]
  IN IF ~isShopifyExternalId(po.external_id) \/ target \notin OrderIds \/ keys = <<>>
     THEN mf
     ELSE IF Len(keys) = 1 THEN cost
     ELSE [cost EXCEPT ![target]["printoteca_shipping_currency"] = po.currency]

(* What a single sweep whose calls all succeed leaves behind.              *)
RECURSIVE SweptTags(_, _)
SweptTags(orders, t) ==
  IF orders = <<>> THEN t
  ELSE SweptTags(Tail(orders), ProjectedTags(Head(orders), t))

RECURSIVE SweptMeta(_, _)
SweptMeta(orders, mf) ==
  IF orders = <<>> THEN mf
  ELSE SweptMeta(Tail(orders), ProjectedMeta(Head(orders), mf))

ReturnedClean(sy) ==
  /\ sy.mode = "sweep" /\ sy.pc = "done"
  /\ sy.outcome = "returned" /\ sy.errors = 0

(* C31: with the supplier and the clock unchanging, when two sweeps, run   *)
(* one after the other or interleaved call by call, have both returned     *)
(* without a failed projection, the tags and the pod metafields of every   *)
(* storefront order are those a single sweep leaves.                       *)
C31_TwoSweepsEndAsOne ==
  (ReturnedClean(sync) /\ ReturnedClean(other))
    => \A sy \in {sync, other} :
         /\ tags = SweptTags(pOrders, sy.atStart[1])
         /\ metafields = SweptMeta(pOrders, sy.atStart[2])

(* Both sweeps started before either wrote, each replaced a tag and wrote  *)
(* a cost, over two supplier orders of the same storefront order.          *)
C31_Witness ==
  /\ ReturnedClean(sync) /\ ReturnedClean(other)
  /\ sync # other
  /\ sync.atStart = other.atStart
  /\ Len(pOrders) = 2 /\ pOrders[1] # pOrders[2]
  /\ \A sy \in {sync, other} :
       \A i \in 1..2 : sy.log[i].tagPut /\ sy.log[i].mfPut # {}
  /\ tags # sync.atStart[1]
  /\ metafields # sync.atStart[2]


(* C32: when the cancelled webhook is delivered again after a first cancel *)
(* that deleted the supplier order and tagged the storefront order, the    *)
(* second cancel leaves the tags as the first run left them: still         *)
(* `cancelled at supplier`, and no `supplier error` added.                 *)
C32_SecondCancelKeepsTags ==
  \A o \in OrderIds :
    (/\ cancels[1].pc = "done" /\ cancels[1].order = o
     /\ cancels[1].deleted = "ok" /\ cancels[1].okTag = "ok"
     /\ cancels[1].okNote = "ok"
     /\ cancels[2].pc = "done" /\ cancels[2].order = o)
      => /\ tags[o] = cancels[2].tagsAtStart
         /\ TagCancelled \in Range(tags[o])


(* ------------------------- setOrderMetafield alone --------------------- *)
(* The metafields of the store as rows: the id the store gave, the owning  *)
(* order, namespace, key and value.                                        *)
MaxSets == 2
Namespaces == {"pod", "custom"}
Keys == {"printoteca_order_id", "printoteca_shipping_cost"}
TextValues == {"1", "2"}
NoRow == [id |-> 0, owner |-> 0, namespace |-> "", key |-> "", value |-> ""]

(* shopify.js:97-101 getOrderMetafields: GET /orders/{id}/metafields.json  *)
(* with params { namespace }.                                              *)
getOrderMetafields(rows, orderId, namespace) ==
  SelectSeq(rows, LAMBDA r : r.owner = orderId /\ r.namespace = namespace)

(* A lookup that takes the first metafield of the namespace, whatever its  *)
(* key.                                                                    *)
getOrderMetafieldFirst(rows, orderId, namespace, key) ==
  LET list == getOrderMetafields(rows, orderId, namespace)
  IN IF list = <<>> THEN NoRow ELSE list[1]

(* shopify.js:103-106 getOrderMetafield: metafields.find(mf => mf.key ===  *)
(* key), NoRow for undefined.                                              *)
getOrderMetafield(rows, orderId, namespace, key) ==
  LET list == getOrderMetafields(rows, orderId, namespace)
      hits == {i \in DOMAIN list : list[i].key = key}
  IN IF hits = {} THEN NoRow
     ELSE list[CHOOSE i \in hits : \A j \in hits : i <= j]

(* shopify.js:109-116: the body of the create; value: String(value) of the *)
(* string every caller passes (shopify.js:143, 155, 157).                  *)
metafieldBody(namespace, key, value) ==
  [namespace |-> namespace, key |-> key, value |-> value]

(* The store holds a metafield of that namespace and key for the order.    *)
storeHolds(rows, orderId, namespace, key) ==
  \E i \in DOMAIN rows : /\ rows[i].owner = orderId
                           /\ rows[i].namespace = namespace
                           /\ rows[i].key = key

(* POST /orders/{id}/metafields.json answered 201: the store holds a new   *)
(* row under a fresh id.                                                   *)
rowsAfterCreate(rows, orderId, body) ==
  Append(rows, [id |-> Len(rows) + 1, owner |-> orderId,
                namespace |-> body.namespace, key |-> body.key,
                value |-> body.value])

(* shopify.js:127-133: PUT /metafields/{existing.id}.json with the value.  *)
rowsAfterUpdate(rows, id, value) ==
  [i \in DOMAIN rows |->
     IF rows[i].id = id THEN [rows[i] EXCEPT !.value = value] ELSE rows[i]]

setReturns(sc) == [sc EXCEPT !.pc = "done", !.outcome = "returned"]
setThrows(sc, err) == [sc EXCEPT !.pc = "done", !.outcome = "raised", !.err = err]

(* shopify.js:124-126: the lookup after a 422; nothing found, throw err.   *)
afterLookup(sc, existing) ==
  IF existing = NoRow
  THEN setThrows([sc EXCEPT !.looked = TRUE], sc.postErr)
  ELSE [sc EXCEPT !.looked = TRUE, !.existing = existing.id, !.pc = "put"]

PureOthersUnchanged ==
  UNCHANGED <<allowList, lineItems, tags, note, metafields, pOrders, chains,
              cancels, sync, other, now, fulfillments, ful, hooks>>

(* A caller calls setOrderMetafield(orderId, namespace, key, value).       *)
SetStart ==
  /\ setCall.pc \in {"idle", "done"}
  /\ setCall.calls < MaxSets
  /\ \E o \in OrderIds, ns \in Namespaces, key \in Keys, v \in TextValues :
       setCall' = [pc |-> "post", orderId |-> o, namespace |-> ns, key |-> key,
                   value |-> v, existing |-> 0, rowsBefore |-> metafieldRows,
                   outcome |-> "none", err |-> NoError, postErr |-> NoError,
                   looked |-> FALSE, calls |-> setCall.calls + 1]
  /\ UNCHANGED <<metafieldRows, built>> /\ PureOthersUnchanged

(* shopify.js:118-121: try create. The store creates the metafield when    *)
(* the order has none of that namespace and key; otherwise it answers 422. *)
(* It also answers 422 to a body it finds invalid, and any call may fail.  *)
SetPost ==
  LET sc == setCall IN
  /\ sc.pc = "post"
  /\ \/ /\ ~storeHolds(metafieldRows, sc.orderId, sc.namespace, sc.key)
        /\ metafieldRows' = rowsAfterCreate(metafieldRows, sc.orderId,
                              metafieldBody(sc.namespace, sc.key, sc.value))
        /\ setCall' = setReturns(sc)
     \/ /\ setCall' = [sc EXCEPT !.pc = "get", !.postErr = ErrShopify422]
        /\ UNCHANGED metafieldRows
     \/ /\ setCall' = setThrows([sc EXCEPT !.postErr = ErrShopify], ErrShopify)
        /\ UNCHANGED metafieldRows
  /\ UNCHANGED built /\ PureOthersUnchanged

(* shopify.js:124: const existing = await getOrderMetafield(...).          *)
SetGet ==
  LET sc == setCall IN
  /\ sc.pc = "get"
  /\ \/ setCall' = afterLookup(sc, getOrderMetafield(metafieldRows, sc.orderId,
                                                    sc.namespace, sc.key))
     \/ setCall' = setThrows(sc, ErrShopify)
  /\ UNCHANGED <<metafieldRows, built>> /\ PureOthersUnchanged

(* shopify.js:127-133: update the metafield that was found.                *)
SetPut ==
  LET sc == setCall IN
  /\ sc.pc = "put"
  /\ \/ /\ metafieldRows' = rowsAfterUpdate(metafieldRows, sc.existing, sc.value)
        /\ setCall' = setReturns(sc)
     \/ /\ setCall' = setThrows(sc, ErrShopify)
        /\ UNCHANGED metafieldRows
  /\ UNCHANGED built /\ PureOthersUnchanged

NextSet == SetStart \/ SetPost \/ SetGet \/ SetPut

(* The rows a store may hold before the call: the key in the namespace,    *)
(* the key in another namespace, another key in the namespace.             *)
RECURSIVE Renumbered(_, _)
Renumbered(rows, n) ==
  IF rows = <<>> THEN <<>>
  ELSE <<[Head(rows) EXCEPT !.id = n]>> \o Renumbered(Tail(rows), n + 1)

InitRows ==
  {Renumbered(
     (IF a THEN <<[NoRow EXCEPT !.owner = 9001, !.namespace = "custom",
                                !.key = "printoteca_order_id", !.value = "9"]>>
      ELSE <<>>)
     \o (IF b THEN <<[NoRow EXCEPT !.owner = 9001, !.namespace = "pod",
                                   !.key = "printoteca_shipping_cost",
                                   !.value = "7"]>>
         ELSE <<>>)
     \o (IF c THEN <<[NoRow EXCEPT !.owner = 9001, !.namespace = "pod",
                                   !.key = "printoteca_order_id", !.value = "0"]>>
         ELSE <<>>), 1) : a \in BOOLEAN, b \in BOOLEAN, c \in BOOLEAN}

InitSet ==
  /\ allowList = {}
  /\ lineItems = [o \in OrderIds |-> MakeLineItems(<<"A">>)]
  /\ tags = [o \in OrderIds |-> <<>>]
  /\ note = [o \in OrderIds |-> <<>>]
  /\ InitMetafields(FALSE)
  /\ pOrders = <<>>
  /\ chains = [c \in Deliveries |-> ChainIdle]
  /\ cancels = [k \in Cancels |-> CancelIdle]
  /\ sync = SyncIdle
  /\ other = SyncIdle
  /\ now = 0
  /\ fulfillments = [o \in OrderIds |-> <<>>]
  /\ ful = FulIdle
  /\ hooks = <<>>
  /\ metafieldRows \in InitRows
  /\ setCall = SetCallIdle
  /\ built = BuiltIdle

SpecSet == InitSet /\ [][NextSet]_vars

(* C33: after setOrderMetafield has returned, the lookup of the key yields *)
(* the value set, whether the metafield existed before or not; no order    *)
(* holds two metafields of one namespace and key; and when the create was  *)
(* answered 422 and the lookup found nothing, the call throws the error of *)
(* the create and the store holds what it held before.                     *)
C33_CreateOrUpdate ==
  LET sc == setCall IN
  /\ (sc.pc = "done" /\ sc.outcome = "returned")
       => /\ getOrderMetafield(metafieldRows, sc.orderId, sc.namespace,
                               sc.key).value = sc.value
          /\ \A i \in DOMAIN metafieldRows :
               (/\ metafieldRows[i].owner = sc.orderId
                /\ metafieldRows[i].namespace = sc.namespace
                /\ metafieldRows[i].key = sc.key)
                 => metafieldRows[i].value = sc.value
  /\ \A i, j \in DOMAIN metafieldRows :
       (/\ metafieldRows[i].owner = metafieldRows[j].owner
        /\ metafieldRows[i].namespace = metafieldRows[j].namespace
        /\ metafieldRows[i].key = metafieldRows[j].key) => i = j
  /\ (sc.pc = "done" /\ sc.postErr = ErrShopify422 /\ sc.looked /\ sc.existing = 0)
       => /\ sc.outcome = "raised"
          /\ sc.err = sc.postErr
          /\ metafieldRows = sc.rowsBefore

(* A call that updated an existing metafield beside one of the same key in *)
(* another namespace and one of another key in the same namespace.         *)
C33_Witness ==
  /\ setCall.pc = "done" /\ setCall.outcome = "returned"
  /\ setCall.existing # 0
  /\ setCall.namespace = "pod" /\ setCall.key = "printoteca_order_id"
  /\ Len(metafieldRows) = 3
  /\ metafieldRows # setCall.rowsBefore


(* ----------------------- designs of a payload item --------------------- *)
MaxProps == 3
DesignLinkName == "_tib_design_link"
PropNames == {DesignLinkName, "_tib_design_link_2", "Size"}
PropValues == {"", "u1", "u2"}
Props == [name : PropNames, value : PropValues]

(* 'name'.startsWith('_tib_design_link') over the names of the model.      *)
startsWithDesignLink(name) == name \in {DesignLinkName, "_tib_design_link_2"}

(* printoteca.js:207-215 extractTeeinblueDesignLink: the value of the      *)
(* first property named _tib_design_link with a value, NoData for null.     *)
extractTeeinblueDesignLink(isArray, properties) ==
  LET hits == {i \in DOMAIN properties :
                 properties[i].name = DesignLinkName /\ properties[i].value # ""}
  IN IF ~isArray \/ hits = {} THEN NoData
     ELSE properties[CHOOSE i \in hits : \A j \in hits : i <= j].value

(* printoteca.js:241, 266-271: item.designs = { front: designUrl } when a  *)
(* link was found, no designs otherwise.                                   *)
itemDesigns(isArray, properties) ==
  [front |-> extractTeeinblueDesignLink(isArray, properties), back |-> NoData]

(* The earlier printoteca.js (extractTeeinblueDesigns): each property      *)
(* whose name starts with the prefix fills front while front is empty,     *)
(* then back while back is empty.                                          *)
RECURSIVE extractTeeinblueDesigns(_, _)
extractTeeinblueDesigns(properties, designs) ==
  IF properties = <<>> THEN designs
  ELSE LET prop == Head(properties)
           next == IF ~startsWithDesignLink(prop.name) THEN designs
                   ELSE IF designs.front \in {NoData, ""}
                        THEN [designs EXCEPT !.front = prop.value]
                   ELSE IF designs.back \in {NoData, ""}
                        THEN [designs EXCEPT !.back = prop.value]
                   ELSE designs
       IN extractTeeinblueDesigns(Tail(properties), next)

(* buildPrintotecaOrderPayloadFromShopify maps one line item.              *)
BuildItem ==
  /\ built.pc = "idle"
  /\ built' = [built EXCEPT !.pc = "done",
                 !.front = itemDesigns(built.isArray, built.properties).front,
                 !.back = itemDesigns(built.isArray, built.properties).back,
                 !.earlier = IF built.isArray
                             THEN extractTeeinblueDesigns(built.properties,
                                    [front |-> NoData, back |-> NoData])
                             ELSE [front |-> NoData, back |-> NoData]]
  /\ UNCHANGED <<metafieldRows, setCall>> /\ PureOthersUnchanged

NextBuild == BuildItem

(* A line item with up to MaxProps properties, or with none at all.        *)
InitBuild ==
  /\ allowList = {}
  /\ lineItems = [o \in OrderIds |-> MakeLineItems(<<"A">>)]
  /\ tags = [o \in OrderIds |-> <<>>]
  /\ note = [o \in OrderIds |-> <<>>]
  /\ InitMetafields(FALSE)
  /\ pOrders = <<>>
  /\ chains = [c \in Deliveries |-> ChainIdle]
  /\ cancels = [k \in Cancels |-> CancelIdle]
  /\ sync = SyncIdle
  /\ other = SyncIdle
  /\ now = 0
  /\ fulfillments = [o \in OrderIds |-> <<>>]
  /\ ful = FulIdle
  /\ hooks = <<>>
  /\ metafieldRows = <<>>
  /\ setCall = SetCallIdle
  /\ \/ built = BuiltIdle
     \/ \E props \in SeqsUpTo(Props, MaxProps) :
          built = [BuiltIdle EXCEPT !.isArray = TRUE, !.properties = props]

SpecBuild == InitBuild /\ [][NextBuild]_vars

(* The properties whose name starts with the reserved prefix, in order.    *)
DesignMatches(properties) ==
  SelectSeq(properties, LAMBDA prop : startsWithDesignLink(prop.name))

(* C34: in the item built for a line item whose matching properties all    *)
(* carry a value, the front design is the first property whose name starts *)
(* with the reserved prefix, the back design the second one if any, later  *)
(* ones are ignored, and an item without a matching property carries no    *)
(* design.                                                                 *)
C34_FirstFrontSecondBack ==
  LET m == DesignMatches(built.properties) IN
  (built.pc = "done" /\ \A i \in DOMAIN m : m[i].value # "")
    => /\ built.front = IF Len(m) >= 1 THEN m[1].value ELSE NoData
       /\ built.back = IF Len(m) >= 2 THEN m[2].value ELSE NoData


(* The number of supplier orders on the pages a sweep fetched.             *)
RECURSIVE ListedTotal(_)
ListedTotal(pages) ==
  IF pages = <<>> THEN 0 ELSE PageSize(Head(pages)) + ListedTotal(Tail(pages))

(* The projection logged in entry e made every write it had to make.       *)
ProjectionCompleted(e) ==
  LET po == pOrders[e.ix] IN
  \/ ~isShopifyExternalId(po.external_id)
  \/ /\ e.tag = NoData \/ e.tagPut
     /\ e.mfPut = Range(costKeys(po))

(* C35: when the sweep returns its counts, synced + errors is the number   *)
(* of supplier orders on the pages it fetched, every listed order is       *)
(* counted once, errors counts the orders whose projection raised, and an  *)
(* order without a recognized correlation id is counted in synced.         *)
C35_CountsAddUpToListed ==
  (sync.mode = "sweep" /\ sync.pc = "done" /\ sync.outcome = "returned") =>
    /\ sync.synced + sync.errors = ListedTotal(sync.listed)
    /\ \A p \in Range(sync.listed) : \A k \in DOMAIN PageOf(p) :
         Cardinality({j \in DOMAIN sync.log : sync.log[j].ix = PageOf(p)[k].ix}) = 1
    /\ Len(sync.log) = ListedTotal(sync.listed)
    /\ sync.errors =
         Cardinality({j \in DOMAIN sync.log : ~ProjectionCompleted(sync.log[j])})
    /\ sync.synced =
         Cardinality({j \in DOMAIN sync.log : ProjectionCompleted(sync.log[j])})
    /\ \A j \in DOMAIN sync.log :
         ~isShopifyExternalId(pOrders[sync.log[j].ix].external_id)
           => sync.log[j].ok

(* A returned sweep over two pages with one failed projection, one order   *)
(* skipped for its correlation id and one projected.                       *)
C35_Witness ==
  /\ sync.mode = "sweep" /\ sync.pc = "done" /\ sync.outcome = "returned"
  /\ sync.listed = <<1, 2>>
  /\ sync.errors = 1 /\ sync.synced = Len(pOrders) - 1
  /\ \E j \in DOMAIN sync.log :
       /\ ~isShopifyExternalId(pOrders[sync.log[j].ix].external_id)
       /\ sync.log[j].ok
  /\ \E j \in DOMAIN sync.log : sync.log[j].ok /\ sync.log[j].tagPut

(* ------------------- cancel against a pending submission --------------- *)
(* The cancel was processed while the order's submission waited on a       *)
(* delay, and its read of the linkage metafield found none.                *)
CancelMetPending(k) ==
  /\ cancels[k].pending
  /\ cancels[k].pc \notin {"idle", "link_get"}
  /\ ~cancels[k].raised
  /\ cancels[k].printotecaId = NoValue

(* The supplier orders placed for storefront order o that are not deleted. *)
LiveSupplierOrders(o) ==
  {i \in DOMAIN pOrders :
     pOrders[i].external_id = ExternalId(o) /\ ~pOrders[i].deleted}

(* C36 as stated: once a cancel that met a pending submission and no       *)
(* linkage has completed for an order, no supplier order for that order    *)
(* that is not deleted exists, then or later.                              *)
C36_NoSupplierOrderAfterCancel ==
  \A k \in Cancels :
    (CancelMetPending(k) /\ cancels[k].pc = "done")
      => LiveSupplierOrders(cancels[k].order) = {}

(* C36, amended: a cancel that met a pending submission and no linkage     *)
(* makes no supplier call at all, so it deletes nothing; the submission is *)
(* left to run, and every supplier order it places for the order stays     *)
(* undeleted.                                                              *)
C36_PendingSubmissionOutlivesCancel ==
  \A k \in Cancels :
    CancelMetPending(k)
      => /\ cancels[k].fetchCalls = 0
         /\ cancels[k].deleteCalls = 0
         /\ \A i \in DOMAIN pOrders :
              pOrders[i].external_id = ExternalId(cancels[k].order)
                => ~pOrders[i].deleted

(* The cancel ended with its note, the submission went on to place the     *)
(* supplier order and to write the linkage.                                *)
C36_Witness ==
  /\ CancelMetPending(1)
  /\ cancels[1].pc = "done"
  /\ cancels[1].notePuts = 1
  /\ chains[1].pc = "done"
  /\ chains[1].createCalls >= 1
  /\ LiveSupplierOrders(cancels[1].order) # {}
  /\ metafields[cancels[1].order]["printoteca_order_id"] # NoValue

(* ----------------------- concurrent note appends ----------------------- *)
(* The order's note holds an entry of the given kind.                      *)
NoteHolds(o, kind) == \E i \in DOMAIN note[o] : note[o][i][1] = kind

(* C37: the note is an append-only log under every interleaving: once the  *)
(* submission's unknown-SKU note or the cancel's missing-linkage note has  *)
(* been written, that entry is part of the order's note in every later     *)
(* state, whatever other append ran next to it.                            *)
C37_NoteKeepsCompletedAppends ==
  /\ \A c \in Deliveries :
       chains[c].skuNote = "ok" => NoteHolds(chains[c].order, "unknown SKUs")
  /\ \A k \in Cancels :
       (cancels[k].pc = "done" /\ cancels[k].printotecaId = NoValue
          /\ cancels[k].notePuts = 1)
         => NoteHolds(cancels[k].order, "no linkage metafield")

(* --------------------- what the supplier error tag says ---------------- *)
(* A supplier call made for the order failed: a create of one of its       *)
(* submissions placed no order, or a delete of one of its cancels failed.  *)
SupplierCallFailed(o) ==
  \/ \E c \in Deliveries :
       /\ chains[c].order = o
       /\ chains[c].createCalls
            > Cardinality({i \in DOMAIN pOrders : pOrders[i].by = c})
  \/ \E k \in Cancels : cancels[k].order = o /\ cancels[k].deleted = "failed"

(* C38: the supplier error tag is on an order only when a supplier call    *)
(* for it failed; after a successful create or delete, a failing           *)
(* storefront write never leads to the tag.                                *)
C38_SupplierErrorOnlyAfterSupplierFailure ==
  \A o \in OrderIds :
    TagSupplierError \in Range(tags[o]) => SupplierCallFailed(o)

(* ------------------------ the target of a resync ----------------------- *)
ProjectionPcs == {"ptag_get", "ptag_put", "pmf_post", "pmf_get", "pmf_put"}

=============================================================================
